---------------------------- MODULE Spec2Model ----------------------------
(***************************************************************************)
(* A model of the M6502 emulator core: the flat Memory (src/Memory.cpp)    *)
(* and the CPU (src/CPU.cpp, src/Instructions.cpp) driven through its      *)
(* public operations Reset, Execute(memory) and Execute(cycles, memory).   *)
(*                                                                         *)
(* Byte is an 8-bit and Word/Address a 16-bit unsigned integer: every      *)
(* assignment to one is reduced modulo 2^8 / 2^16 as the C++ conversion    *)
(* does.  Cycles (TotalCycles, cyclesUsed) is a 64-bit unsigned counter;   *)
(* it is kept as a natural number, the runs explored here staying far      *)
(* below 2^64.                                                             *)
(***************************************************************************)
EXTENDS Integers, Sequences, FiniteSets, TLC

VARIABLES
    A, X, Y,        \* CPU::A, CPU::X, CPU::Y
    PC,             \* CPU::PC
    SP,             \* CPU::SP
    P,              \* CPU::P
    TotalCycles,    \* CPU::TotalCycles
    data,           \* Memory::data, the non-zero cells of the 64 KiB array
    reset,          \* history: Reset has been called on this CPU
    hist            \* history: one record per public operation performed

vars == <<A, X, Y, PC, SP, P, TotalCycles, data, reset, hist>>

(***************************************************************************)
(* Bounds of the exploration.                                              *)
(***************************************************************************)
MaxOps == 4         \* public operations performed on one CPU
MaxBudget == 7      \* largest cycle budget handed to Execute(cycles, memory)

(***************************************************************************)
(* Constants.h: status flag bits, vectors, stack.                          *)
(***************************************************************************)
FLAG_CARRY == \h01
FLAG_ZERO == \h02
FLAG_INTERRUPT == \h04
FLAG_DECIMAL == \h08
FLAG_BREAK == \h10
FLAG_UNUSED == \h20
FLAG_OVERFLOW == \h40
FLAG_NEGATIVE == \h80

VECTOR_NMI == \hFFFA
VECTOR_RESET == \hFFFC
VECTOR_IRQ_BRK == \hFFFE

STACK_BASE == \h0100
STACK_POINTER_RESET == \hFD

(***************************************************************************)
(* Fixed-width integers and the bitwise operators of C++.                  *)
(***************************************************************************)
ToByte(n) == n % 256

ToWord(n) == n % 65536

\* static_cast<SignedByte>(b)
ToSignedByte(b) == IF b >= 128 THEN b - 256 ELSE b

RECURSIVE BitAnd(_, _)
BitAnd(a, b) ==
    IF a = 0 \/ b = 0 THEN 0
    ELSE (a % 2) * (b % 2) + 2 * BitAnd(a \div 2, b \div 2)

RECURSIVE BitOr(_, _)
BitOr(a, b) ==
    IF a = 0 THEN b
    ELSE IF b = 0 THEN a
    ELSE (IF a % 2 = 1 \/ b % 2 = 1 THEN 1 ELSE 0) + 2 * BitOr(a \div 2, b \div 2)

RECURSIVE BitXor(_, _)
BitXor(a, b) ==
    IF a = 0 THEN b
    ELSE IF b = 0 THEN a
    ELSE (IF a % 2 # b % 2 THEN 1 ELSE 0) + 2 * BitXor(a \div 2, b \div 2)

\* ~flag, as a Byte
BitNot8(a) == 255 - a

(***************************************************************************)
(* Memory.  data holds the cells that differ from the zero fill of         *)
(* Memory::Initialize; Cell is data[address] of the full array.            *)
(***************************************************************************)
Cell(d, address) == IF address \in DOMAIN d THEN d[address] ELSE 0

Store(d, address, value) ==
    IF value = 0
    THEN [a \in DOMAIN d \ {address} |-> d[a]]
    ELSE [a \in DOMAIN d \cup {address} |-> IF a = address THEN value ELSE d[a]]

\* Memory::Memory / Memory::Initialize
EmptyMemory == [a \in {} |-> 0]

(***************************************************************************)
(* The state threaded through one call: the CPU registers, the memory, the *)
(* cycle counter passed by reference (cycles), and two history fields: the *)
(* bus accesses made (log) and the stack accesses among them (stack).      *)
(***************************************************************************)
\* Memory::ReadByte
ReadByte(s, address) ==
    [v |-> Cell(s.data, address),
     s |-> [s EXCEPT !.cycles = @ + 1,
                     !.log = Append(@, [op |-> "R", addr |-> address])]]

\* Memory::WriteByte
WriteByte(s, address, value) ==
    [s EXCEPT !.cycles = @ + 1,
              !.data = Store(@, address, value),
              !.log = Append(@, [op |-> "W", addr |-> address])]

\* Memory::ReadWord
ReadWord(s, address) ==
    LET lo == ReadByte(s, address)
        hi == ReadByte(lo.s, ToWord(address + 1))
    IN  [v |-> BitOr(ToWord(hi.v * 256), lo.v), s |-> hi.s]

\* WriteWord with the high byte at address + 1 taken without the 16-bit wrap
WriteWord_NoWrap(s, address, value) ==
    LET lowByte == BitAnd(value, 255)
        highByte == BitAnd(value \div 256, 255)
    IN  WriteByte(WriteByte(s, address, lowByte), address + 1, highByte)

\* Memory::WriteWord
WriteWord(s, address, value) ==
    LET lowByte == BitAnd(value, 255)
        highByte == BitAnd(value \div 256, 255)
    IN  WriteByte(WriteByte(s, address, lowByte), ToWord(address + 1), highByte)

(***************************************************************************)
(* CPU: flag operations.                                                   *)
(***************************************************************************)
\* CPU::SetFlag
SetFlag(s, flag, condition) ==
    IF condition
    THEN [s EXCEPT !.P = BitOr(@, flag)]
    ELSE [s EXCEPT !.P = BitAnd(@, BitNot8(flag))]

\* CPU::GetFlag
GetFlag(s, flag) == BitAnd(s.P, flag) # 0

\* UpdateZeroAndNegativeFlags that sets Z and N when they apply and never clears them
UpdateZeroAndNegativeFlags_SetOnly(s, value) ==
    [s EXCEPT !.P = BitOr(BitOr(s.P, IF value = 0 THEN FLAG_ZERO ELSE 0),
                          IF BitAnd(value, 128) # 0 THEN FLAG_NEGATIVE ELSE 0)]

\* CPU::UpdateZeroAndNegativeFlags
UpdateZeroAndNegativeFlags(s, value) ==
    SetFlag(SetFlag(s, FLAG_ZERO, value = 0),
            FLAG_NEGATIVE, BitAnd(value, 128) # 0)

\* GetFlag(FLAG_CARRY) ? 1 : 0
CarryIn(s) == IF GetFlag(s, FLAG_CARRY) THEN 1 ELSE 0

(***************************************************************************)
(* CPU: stack operations.                                                  *)
(***************************************************************************)
\* PushByteToStack with SP-- stopping at 0x00 instead of wrapping to 0xFF
PushByteToStack_Saturating(s, value) ==
    LET stackAddress == ToWord(STACK_BASE + s.SP)
        w == WriteByte(s, stackAddress, value)
    IN  [w EXCEPT !.SP = IF s.SP = 0 THEN 0 ELSE s.SP - 1,
                  !.stack = Append(@, [op |-> "push", addr |-> stackAddress,
                                       value |-> value])]

\* CPU::PushByteToStack
PushByteToStack(s, value) ==
    LET stackAddress == ToWord(STACK_BASE + s.SP)
        w == WriteByte(s, stackAddress, value)
    IN  [w EXCEPT !.SP = ToByte(s.SP - 1),
                  !.stack = Append(@, [op |-> "push", addr |-> stackAddress,
                                       value |-> value])]

\* CPU::PushWordToStack
PushWordToStack(s, value) ==
    PushByteToStack(PushByteToStack(s, BitAnd(value \div 256, 255)),
                    BitAnd(value, 255))

\* PopByteFromStack with SP++ computed in a type wider than Byte for the address
PopByteFromStack_Wide(s) ==
    LET sp == ToByte(s.SP + 1)
        stackAddress == ToWord(STACK_BASE + s.SP + 1)
        r == ReadByte([s EXCEPT !.SP = sp], stackAddress)
    IN  [v |-> r.v,
         s |-> [r.s EXCEPT !.stack = Append(@, [op |-> "pop", addr |-> stackAddress,
                                                value |-> r.v])]]

\* CPU::PopByteFromStack
PopByteFromStack(s) ==
    LET sp == ToByte(s.SP + 1)
        stackAddress == ToWord(STACK_BASE + sp)
        r == ReadByte([s EXCEPT !.SP = sp], stackAddress)
    IN  [v |-> r.v,
         s |-> [r.s EXCEPT !.stack = Append(@, [op |-> "pop", addr |-> stackAddress,
                                                value |-> r.v])]]

\* CPU::PopWordFromStack
PopWordFromStack(s) ==
    LET lo == PopByteFromStack(s)
        hi == PopByteFromStack(lo.s)
    IN  [v |-> BitOr(ToWord(hi.v * 256), lo.v), s |-> hi.s]

(***************************************************************************)
(* CPU: memory access helpers.                                             *)
(***************************************************************************)
\* FetchByte incrementing PC without the 16-bit wrap
FetchByte_NoWrap(s) ==
    LET r == ReadByte(s, s.PC)
    IN  [v |-> r.v, s |-> [r.s EXCEPT !.PC = @ + 1]]

\* CPU::FetchByte
FetchByte(s) ==
    LET r == ReadByte(s, s.PC)
    IN  [v |-> r.v, s |-> [r.s EXCEPT !.PC = ToWord(@ + 1)]]

\* CPU::FetchWord
FetchWord(s) ==
    LET r == ReadWord(s, s.PC)
    IN  [v |-> r.v, s |-> [r.s EXCEPT !.PC = ToWord(@ + 2)]]

(***************************************************************************)
(* CPU: addressing modes.  Each yields the effective address and the state *)
(* after the operand fetch.                                                *)
(***************************************************************************)
\* AddrImmediate charging nothing, the operand read being the only cost
AddrImmediate_NoCharge(s) ==
    [addr |-> s.PC,
     s |-> [s EXCEPT !.PC = ToWord(@ + 1)]]

\* CPU::AddrImmediate
AddrImmediate(s) ==
    [addr |-> s.PC,
     s |-> [s EXCEPT !.PC = ToWord(@ + 1), !.cycles = @ + 1]]

\* CPU::AddrZeroPage
AddrZeroPage(s) ==
    LET f == FetchByte(s)
    IN  [addr |-> f.v, s |-> f.s]

\* AddrZeroPageX adding X in a type wider than Byte, so that it leaves page 0
AddrZeroPageX_NoWrap(s) ==
    LET f == FetchByte(s)
    IN  [addr |-> f.v + s.X, s |-> [f.s EXCEPT !.cycles = @ + 1]]

\* CPU::AddrZeroPageX
AddrZeroPageX(s) ==
    LET f == FetchByte(s)
        finalAddress == ToByte(f.v + s.X)
    IN  [addr |-> finalAddress, s |-> [f.s EXCEPT !.cycles = @ + 1]]

\* CPU::AddrZeroPageY
AddrZeroPageY(s) ==
    LET f == FetchByte(s)
        finalAddress == ToByte(f.v + s.Y)
    IN  [addr |-> finalAddress, s |-> [f.s EXCEPT !.cycles = @ + 1]]

\* CPU::AddrAbsolute
AddrAbsolute(s) ==
    LET f == FetchWord(s)
    IN  [addr |-> f.v, s |-> f.s]

\* the page-boundary test shared by the indexed modes
PageCrossed(baseAddress, finalAddress) ==
    BitAnd(baseAddress, 65280) # BitAnd(finalAddress, 65280)

\* AddrAbsoluteX that never charges the page-cross cycle
AddrAbsoluteX_NoPenalty(s, addCycleOnPageCross) ==
    LET f == FetchWord(s)
    IN  [addr |-> ToWord(f.v + s.X), s |-> f.s]

\* AddrAbsoluteX charging the page-cross cycle to writes as well
AddrAbsoluteX_AlwaysPenalty(s, addCycleOnPageCross) ==
    LET f == FetchWord(s)
        baseAddress == f.v
        finalAddress == ToWord(baseAddress + s.X)
    IN  [addr |-> finalAddress,
         s |-> IF PageCrossed(baseAddress, finalAddress)
               THEN [f.s EXCEPT !.cycles = @ + 1]
               ELSE f.s]

\* CPU::AddrAbsoluteX
AddrAbsoluteX(s, addCycleOnPageCross) ==
    LET f == FetchWord(s)
        baseAddress == f.v
        finalAddress == ToWord(baseAddress + s.X)
    IN  [addr |-> finalAddress,
         s |-> IF addCycleOnPageCross /\ PageCrossed(baseAddress, finalAddress)
               THEN [f.s EXCEPT !.cycles = @ + 1]
               ELSE f.s]

\* CPU::AddrAbsoluteY
AddrAbsoluteY(s, addCycleOnPageCross) ==
    LET f == FetchWord(s)
        baseAddress == f.v
        finalAddress == ToWord(baseAddress + s.Y)
    IN  [addr |-> finalAddress,
         s |-> IF addCycleOnPageCross /\ PageCrossed(baseAddress, finalAddress)
               THEN [f.s EXCEPT !.cycles = @ + 1]
               ELSE f.s]

\* CPU::AddrIndexedIndirect
AddrIndexedIndirect(s) ==
    LET f == FetchByte(s)
        finalZpAddress == ToByte(f.v + s.X)
        t == [f.s EXCEPT !.cycles = @ + 1]
        lo == ReadByte(t, finalZpAddress)
        hi == ReadByte(lo.s, BitAnd(finalZpAddress + 1, 255))
    IN  [addr |-> BitOr(ToWord(hi.v * 256), lo.v), s |-> hi.s]

\* AddrIndirectIndexed that charges the page-cross cycle whatever
\* addCycleOnPageCross is
AddrIndirectIndexed_AlwaysPenalty(s, addCycleOnPageCross) ==
    LET f == FetchByte(s)
        lo == ReadByte(f.s, f.v)
        hi == ReadByte(lo.s, BitAnd(f.v + 1, 255))
        baseAddress == BitOr(ToWord(hi.v * 256), lo.v)
        finalAddress == ToWord(baseAddress + s.Y)
    IN  [addr |-> finalAddress,
         s |-> IF PageCrossed(baseAddress, finalAddress)
               THEN [hi.s EXCEPT !.cycles = @ + 1]
               ELSE hi.s]

\* CPU::AddrIndirectIndexed
AddrIndirectIndexed(s, addCycleOnPageCross) ==
    LET f == FetchByte(s)
        zpAddress == f.v
        lo == ReadByte(f.s, zpAddress)
        hi == ReadByte(lo.s, BitAnd(zpAddress + 1, 255))
        baseAddress == BitOr(ToWord(hi.v * 256), lo.v)
        finalAddress == ToWord(baseAddress + s.Y)
    IN  [addr |-> finalAddress,
         s |-> IF addCycleOnPageCross /\ PageCrossed(baseAddress, finalAddress)
               THEN [hi.s EXCEPT !.cycles = @ + 1]
               ELSE hi.s]

\* CPU.h: the default of addCycleOnPageCross where a call omits it
DefaultAddCycle == TRUE

(***************************************************************************)
(* Load / store.                                                           *)
(***************************************************************************)
\* CPU::LDA
LDA(s, address) ==
    LET r == ReadByte(s, address)
    IN  UpdateZeroAndNegativeFlags([r.s EXCEPT !.A = r.v], r.v)

\* CPU::LDX
LDX(s, address) ==
    LET r == ReadByte(s, address)
    IN  UpdateZeroAndNegativeFlags([r.s EXCEPT !.X = r.v], r.v)

\* CPU::LDY
LDY(s, address) ==
    LET r == ReadByte(s, address)
    IN  UpdateZeroAndNegativeFlags([r.s EXCEPT !.Y = r.v], r.v)

\* STA setting Z and N from the accumulator, as the loads do
STA_SetsFlags(s, address) == UpdateZeroAndNegativeFlags(WriteByte(s, address, s.A), s.A)

\* CPU::STA
STA(s, address) == WriteByte(s, address, s.A)

\* CPU::STX
STX(s, address) == WriteByte(s, address, s.X)

\* CPU::STY
STY(s, address) == WriteByte(s, address, s.Y)

(***************************************************************************)
(* Register transfers.                                                     *)
(***************************************************************************)
\* CPU::TAX
TAX(s) == UpdateZeroAndNegativeFlags([s EXCEPT !.X = s.A, !.cycles = @ + 1], s.A)

\* CPU::TAY
TAY(s) == UpdateZeroAndNegativeFlags([s EXCEPT !.Y = s.A, !.cycles = @ + 1], s.A)

\* CPU::TXA
TXA(s) == UpdateZeroAndNegativeFlags([s EXCEPT !.A = s.X, !.cycles = @ + 1], s.X)

\* CPU::TYA
TYA(s) == UpdateZeroAndNegativeFlags([s EXCEPT !.A = s.Y, !.cycles = @ + 1], s.Y)

\* CPU::TSX
TSX(s) == UpdateZeroAndNegativeFlags([s EXCEPT !.X = s.SP, !.cycles = @ + 1], s.SP)

\* CPU::TXS
TXS(s) == [s EXCEPT !.SP = s.X, !.cycles = @ + 1]

(***************************************************************************)
(* Stack instructions.                                                     *)
(***************************************************************************)
\* CPU::PHA
PHA(s) == PushByteToStack([s EXCEPT !.cycles = @ + 1], s.A)

\* PHP pushing P as it is, without the FLAG_BREAK | FLAG_UNUSED it ORs in
PHP_AsIs(s) == PushByteToStack([s EXCEPT !.cycles = @ + 1], s.P)

\* CPU::PHP
PHP(s) ==
    LET statusToStore == BitOr(BitOr(s.P, FLAG_BREAK), FLAG_UNUSED)
    IN  PushByteToStack([s EXCEPT !.cycles = @ + 1], statusToStore)

\* PLA without its UpdateZeroAndNegativeFlags(A) line
PLA_NoFlags(s) ==
    LET r == PopByteFromStack([s EXCEPT !.cycles = @ + 2])
    IN  [r.s EXCEPT !.A = r.v]

\* CPU::PLA
PLA(s) ==
    LET r == PopByteFromStack([s EXCEPT !.cycles = @ + 2])
    IN  UpdateZeroAndNegativeFlags([r.s EXCEPT !.A = r.v], r.v)

\* PLP without its SetFlag(FLAG_UNUSED, true) line
PLP_AsPopped(s) ==
    LET r == PopByteFromStack([s EXCEPT !.cycles = @ + 2])
    IN  [r.s EXCEPT !.P = r.v]

\* CPU::PLP
PLP(s) ==
    LET r == PopByteFromStack([s EXCEPT !.cycles = @ + 2])
    IN  SetFlag([r.s EXCEPT !.P = r.v], FLAG_UNUSED, TRUE)

(***************************************************************************)
(* Logical instructions.                                                   *)
(***************************************************************************)
\* CPU::AND
AND(s, address) ==
    LET r == ReadByte(s, address)
        a == BitAnd(s.A, r.v)
    IN  UpdateZeroAndNegativeFlags([r.s EXCEPT !.A = a], a)

\* CPU::ORA
ORA(s, address) ==
    LET r == ReadByte(s, address)
        a == BitOr(s.A, r.v)
    IN  UpdateZeroAndNegativeFlags([r.s EXCEPT !.A = a], a)

\* CPU::EOR
EOR(s, address) ==
    LET r == ReadByte(s, address)
        a == BitXor(s.A, r.v)
    IN  UpdateZeroAndNegativeFlags([r.s EXCEPT !.A = a], a)

\* CPU::BIT
BIT(s, address) ==
    LET r == ReadByte(s, address)
        value == r.v
    IN  SetFlag(SetFlag(SetFlag(r.s, FLAG_ZERO, BitAnd(s.A, value) = 0),
                        FLAG_NEGATIVE, BitAnd(value, 128) # 0),
                FLAG_OVERFLOW, BitAnd(value, 64) # 0)

(***************************************************************************)
(* Arithmetic.                                                             *)
(***************************************************************************)
\* ADC_Decimal taking Z and N from the final accumulator
ADC_Decimal_FlagsFromResult(s, operand) ==
    LET low == BitAnd(s.A, 15) + BitAnd(operand, 15) + CarryIn(s)
        lowAdj == IF low > 9 THEN low + 6 ELSE low
        sum == ToWord(BitAnd(s.A, 240) + BitAnd(operand, 240)
                      + (IF lowAdj > 15 THEN 16 ELSE 0) + BitAnd(lowAdj, 15))
        overflow == BitAnd(BitAnd(BitXor(s.A, sum), BitXor(operand, sum)), 128) # 0
        final == IF BitAnd(sum, 240) > 144 THEN ToWord(sum + 96) ELSE sum
        flagged == SetFlag(SetFlag(SetFlag(s, FLAG_NEGATIVE, BitAnd(final, 128) # 0),
                                   FLAG_ZERO, BitAnd(final, 255) = 0),
                           FLAG_OVERFLOW, overflow)
        carried == SetFlag(flagged, FLAG_CARRY, final > 153)
    IN  [carried EXCEPT !.A = BitAnd(final, 255)]

\* ADC_Decimal taking the carry of the binary sum
ADC_Decimal_BinaryCarry(s, operand) ==
    LET low == BitAnd(s.A, 15) + BitAnd(operand, 15) + CarryIn(s)
        lowAdj == IF low > 9 THEN low + 6 ELSE low
        sum == ToWord(BitAnd(s.A, 240) + BitAnd(operand, 240)
                      + (IF lowAdj > 15 THEN 16 ELSE 0) + BitAnd(lowAdj, 15))
        overflow == BitAnd(BitAnd(BitXor(s.A, sum), BitXor(operand, sum)), 128) # 0
        flagged == SetFlag(SetFlag(SetFlag(s, FLAG_NEGATIVE, BitAnd(sum, 128) # 0),
                                   FLAG_ZERO, BitAnd(sum, 255) = 0),
                           FLAG_OVERFLOW, overflow)
        final == IF BitAnd(sum, 240) > 144 THEN ToWord(sum + 96) ELSE sum
        carried == SetFlag(flagged, FLAG_CARRY, s.A + operand + CarryIn(s) > 255)
    IN  [carried EXCEPT !.A = BitAnd(final, 255)]

\* CPU::ADC, the branch taken when FLAG_DECIMAL is set
ADC_Decimal(s, operand) ==
    LET low == BitAnd(s.A, 15) + BitAnd(operand, 15) + CarryIn(s)
        lowAdj == IF low > 9 THEN low + 6 ELSE low
        sum == ToWord(BitAnd(s.A, 240) + BitAnd(operand, 240)
                      + (IF lowAdj > 15 THEN 16 ELSE 0) + BitAnd(lowAdj, 15))
        overflow == BitAnd(BitAnd(BitXor(s.A, sum), BitXor(operand, sum)), 128) # 0
        flagged == SetFlag(SetFlag(SetFlag(s, FLAG_NEGATIVE, BitAnd(sum, 128) # 0),
                                   FLAG_ZERO, BitAnd(sum, 255) = 0),
                           FLAG_OVERFLOW, overflow)
        final == IF BitAnd(sum, 240) > 144 THEN ToWord(sum + 96) ELSE sum
        carried == SetFlag(flagged, FLAG_CARRY, final > 153)
    IN  [carried EXCEPT !.A = BitAnd(final, 255)]

\* ADC_Binary without the carry-in
ADC_Binary_NoCarryIn(s, operand) ==
    LET sum == ToWord(s.A + operand)
        overflow == BitAnd(BitAnd(BitXor(s.A, sum), BitXor(operand, sum)), 128) # 0
        flagged == SetFlag(SetFlag(s, FLAG_CARRY, sum > 255), FLAG_OVERFLOW, overflow)
        a == BitAnd(sum, 255)
    IN  UpdateZeroAndNegativeFlags([flagged EXCEPT !.A = a], a)

\* CPU::ADC, the binary branch
ADC_Binary(s, operand) ==
    LET sum == ToWord(s.A + operand + CarryIn(s))
        overflow == BitAnd(BitAnd(BitXor(s.A, sum), BitXor(operand, sum)), 128) # 0
        flagged == SetFlag(SetFlag(s, FLAG_CARRY, sum > 255), FLAG_OVERFLOW, overflow)
        a == BitAnd(sum, 255)
    IN  UpdateZeroAndNegativeFlags([flagged EXCEPT !.A = a], a)

\* CPU::ADC
ADC(s, address) ==
    LET r == ReadByte(s, address)
    IN  IF GetFlag(r.s, FLAG_DECIMAL)
        THEN ADC_Decimal(r.s, r.v)
        ELSE ADC_Binary(r.s, r.v)

\* SBC_Decimal without the adjustment of a negative high nibble
SBC_Decimal_NoHighAdjust(s, operand) ==
    LET d0 == ToWord(BitAnd(s.A, 15) - BitAnd(operand, 15)
                     - (IF GetFlag(s, FLAG_CARRY) THEN 0 ELSE 1))
        d1 == IF BitAnd(d0, 16) # 0
              THEN BitOr(BitAnd(d0 - 6, 15),
                         ToWord(BitAnd(s.A, 240) - BitAnd(operand, 240) - 16))
              ELSE BitOr(BitAnd(d0, 15),
                         ToWord(BitAnd(s.A, 240) - BitAnd(operand, 240)))
        carried == SetFlag(s, FLAG_CARRY, BitAnd(d1, 256) = 0)
        a == BitAnd(d1, 255)
    IN  UpdateZeroAndNegativeFlags([carried EXCEPT !.A = a], a)

\* CPU::SBC, the branch taken when FLAG_DECIMAL is set
SBC_Decimal(s, operand) ==
    LET d0 == ToWord(BitAnd(s.A, 15) - BitAnd(operand, 15)
                     - (IF GetFlag(s, FLAG_CARRY) THEN 0 ELSE 1))
        d1 == IF BitAnd(d0, 16) # 0
              THEN BitOr(BitAnd(d0 - 6, 15),
                         ToWord(BitAnd(s.A, 240) - BitAnd(operand, 240) - 16))
              ELSE BitOr(BitAnd(d0, 15),
                         ToWord(BitAnd(s.A, 240) - BitAnd(operand, 240)))
        diff == IF BitAnd(d1, 256) # 0 THEN ToWord(d1 - 96) ELSE d1
        carried == SetFlag(s, FLAG_CARRY, BitAnd(diff, 256) = 0)
        a == BitAnd(diff, 255)
    IN  UpdateZeroAndNegativeFlags([carried EXCEPT !.A = a], a)

\* SBC_Binary as a two's complement subtraction that ignores the borrow
SBC_Binary_NoBorrow(s, operand) ==
    LET inverted == BitXor(operand, 255)
        sum == ToWord(s.A + inverted + 1)
        overflow == BitAnd(BitAnd(BitXor(s.A, sum), BitXor(inverted, sum)), 128) # 0
        flagged == SetFlag(SetFlag(s, FLAG_CARRY, sum > 255), FLAG_OVERFLOW, overflow)
        a == BitAnd(sum, 255)
    IN  UpdateZeroAndNegativeFlags([flagged EXCEPT !.A = a], a)

\* CPU::SBC, the binary branch
SBC_Binary(s, operand) ==
    LET inverted == BitXor(operand, 255)
        sum == ToWord(s.A + inverted + CarryIn(s))
        overflow == BitAnd(BitAnd(BitXor(s.A, sum), BitXor(inverted, sum)), 128) # 0
        flagged == SetFlag(SetFlag(s, FLAG_CARRY, sum > 255), FLAG_OVERFLOW, overflow)
        a == BitAnd(sum, 255)
    IN  UpdateZeroAndNegativeFlags([flagged EXCEPT !.A = a], a)

\* CPU::SBC
SBC(s, address) ==
    LET r == ReadByte(s, address)
    IN  IF GetFlag(r.s, FLAG_DECIMAL)
        THEN SBC_Decimal(r.s, r.v)
        ELSE SBC_Binary(r.s, r.v)

\* CompareRegister taking N from the order of the two values
CompareRegister_NegativeWhenBelow(s, regValue, memValue) ==
    SetFlag(SetFlag(SetFlag(s, FLAG_CARRY, regValue >= memValue),
                    FLAG_ZERO, regValue = memValue),
            FLAG_NEGATIVE, regValue < memValue)

\* CPU::CompareRegister
CompareRegister(s, regValue, memValue) ==
    LET result == ToWord(regValue - memValue)
    IN  SetFlag(SetFlag(SetFlag(s, FLAG_CARRY, regValue >= memValue),
                        FLAG_ZERO, regValue = memValue),
                FLAG_NEGATIVE, BitAnd(result, 128) # 0)

\* CPU::CMP
CMP(s, address) ==
    LET r == ReadByte(s, address)
    IN  CompareRegister(r.s, s.A, r.v)

\* CPU::CPX
CPX(s, address) ==
    LET r == ReadByte(s, address)
    IN  CompareRegister(r.s, s.X, r.v)

\* CPU::CPY
CPY(s, address) ==
    LET r == ReadByte(s, address)
    IN  CompareRegister(r.s, s.Y, r.v)

(***************************************************************************)
(* Increment / decrement.                                                  *)
(***************************************************************************)
\* CPU::INC
INC(s, address) ==
    LET r == ReadByte(s, address)
        value == ToByte(r.v + 1)
        w == WriteByte([r.s EXCEPT !.cycles = @ + 1], address, value)
    IN  UpdateZeroAndNegativeFlags(w, value)

\* CPU::INX
INX(s) ==
    LET x == ToByte(s.X + 1)
    IN  UpdateZeroAndNegativeFlags([s EXCEPT !.X = x, !.cycles = @ + 1], x)

\* CPU::INY
INY(s) ==
    LET y == ToByte(s.Y + 1)
    IN  UpdateZeroAndNegativeFlags([s EXCEPT !.Y = y, !.cycles = @ + 1], y)

\* CPU::DEC
DEC(s, address) ==
    LET r == ReadByte(s, address)
        value == ToByte(r.v - 1)
        w == WriteByte([r.s EXCEPT !.cycles = @ + 1], address, value)
    IN  UpdateZeroAndNegativeFlags(w, value)

\* CPU::DEX
DEX(s) ==
    LET x == ToByte(s.X - 1)
    IN  UpdateZeroAndNegativeFlags([s EXCEPT !.X = x, !.cycles = @ + 1], x)

\* CPU::DEY
DEY(s) ==
    LET y == ToByte(s.Y - 1)
    IN  UpdateZeroAndNegativeFlags([s EXCEPT !.Y = y, !.cycles = @ + 1], y)

(***************************************************************************)
(* Shifts and rotates (src/Instructions.cpp).                              *)
(***************************************************************************)
\* ASL_ACC taking the carry from bit 0, as LSR does, in place of bit 7
ASL_ACC_CarryFromBit0(s) ==
    LET c == SetFlag(s, FLAG_CARRY, BitAnd(s.A, 1) # 0)
        a == ToByte(s.A * 2)
    IN  UpdateZeroAndNegativeFlags([c EXCEPT !.A = a, !.cycles = @ + 1], a)

\* CPU::ASL_ACC
ASL_ACC(s) ==
    LET c == SetFlag(s, FLAG_CARRY, BitAnd(s.A, 128) # 0)
        a == ToByte(s.A * 2)
    IN  UpdateZeroAndNegativeFlags([c EXCEPT !.A = a, !.cycles = @ + 1], a)

\* CPU::ASL_MEM
ASL_MEM(s, address) ==
    LET r == ReadByte(s, address)
        c == SetFlag(r.s, FLAG_CARRY, BitAnd(r.v, 128) # 0)
        value == ToByte(r.v * 2)
        w == WriteByte([c EXCEPT !.cycles = @ + 1], address, value)
    IN  UpdateZeroAndNegativeFlags(w, value)

\* CPU::LSR_ACC
LSR_ACC(s) ==
    LET c == SetFlag(s, FLAG_CARRY, BitAnd(s.A, 1) # 0)
        a == s.A \div 2
    IN  UpdateZeroAndNegativeFlags([c EXCEPT !.A = a, !.cycles = @ + 1], a)

\* CPU::LSR_MEM
LSR_MEM(s, address) ==
    LET r == ReadByte(s, address)
        c == SetFlag(r.s, FLAG_CARRY, BitAnd(r.v, 1) # 0)
        value == r.v \div 2
        w == WriteByte([c EXCEPT !.cycles = @ + 1], address, value)
    IN  UpdateZeroAndNegativeFlags(w, value)

\* ROL_ACC filling bit 0 with zero, as a shift does
ROL_ACC_ShiftsInZero(s) ==
    LET c == SetFlag(s, FLAG_CARRY, BitAnd(s.A, 128) # 0)
        a == ToByte(s.A * 2)
    IN  UpdateZeroAndNegativeFlags([c EXCEPT !.A = a, !.cycles = @ + 1], a)

\* CPU::ROL_ACC
ROL_ACC(s) ==
    LET oldCarry == GetFlag(s, FLAG_CARRY)
        c == SetFlag(s, FLAG_CARRY, BitAnd(s.A, 128) # 0)
        a == ToByte(BitOr(s.A * 2, IF oldCarry THEN 1 ELSE 0))
    IN  UpdateZeroAndNegativeFlags([c EXCEPT !.A = a, !.cycles = @ + 1], a)

\* CPU::ROL_MEM
ROL_MEM(s, address) ==
    LET r == ReadByte(s, address)
        oldCarry == GetFlag(r.s, FLAG_CARRY)
        c == SetFlag(r.s, FLAG_CARRY, BitAnd(r.v, 128) # 0)
        value == ToByte(BitOr(r.v * 2, IF oldCarry THEN 1 ELSE 0))
        w == WriteByte([c EXCEPT !.cycles = @ + 1], address, value)
    IN  UpdateZeroAndNegativeFlags(w, value)

\* CPU::ROR_ACC
ROR_ACC(s) ==
    LET oldCarry == GetFlag(s, FLAG_CARRY)
        c == SetFlag(s, FLAG_CARRY, BitAnd(s.A, 1) # 0)
        a == ToByte(BitOr(s.A \div 2, IF oldCarry THEN 128 ELSE 0))
    IN  UpdateZeroAndNegativeFlags([c EXCEPT !.A = a, !.cycles = @ + 1], a)

\* CPU::ROR_MEM
ROR_MEM(s, address) ==
    LET r == ReadByte(s, address)
        oldCarry == GetFlag(r.s, FLAG_CARRY)
        c == SetFlag(r.s, FLAG_CARRY, BitAnd(r.v, 1) # 0)
        value == ToByte(BitOr(r.v \div 2, IF oldCarry THEN 128 ELSE 0))
        w == WriteByte([c EXCEPT !.cycles = @ + 1], address, value)
    IN  UpdateZeroAndNegativeFlags(w, value)

(***************************************************************************)
(* Jumps, calls, returns and branches.                                     *)
(***************************************************************************)
\* CPU::JMP
JMP(s, address) == [s EXCEPT !.PC = address]

\* JSR pushing PC, the address after the instruction, in place of PC - 1
JSR_PushesNext(s, address) ==
    LET returnAddress == s.PC
        pushed == PushWordToStack([s EXCEPT !.cycles = @ + 1], returnAddress)
    IN  [pushed EXCEPT !.PC = address]

\* CPU::JSR
JSR(s, address) ==
    LET returnAddress == ToWord(s.PC - 1)
        pushed == PushWordToStack([s EXCEPT !.cycles = @ + 1], returnAddress)
    IN  [pushed EXCEPT !.PC = address]

\* CPU::RTS
RTS(s) ==
    LET r == PopWordFromStack([s EXCEPT !.cycles = @ + 2])
        returnAddress == r.v
    IN  [r.s EXCEPT !.PC = ToWord(returnAddress + 1), !.cycles = @ + 1]

\* RTI returning to the address after the one it pops, as RTS does
RTI_ReturnsPastAddress(s) ==
    LET p == PopByteFromStack([s EXCEPT !.cycles = @ + 1])
        flagged == SetFlag([p.s EXCEPT !.P = p.v], FLAG_UNUSED, TRUE)
        r == PopWordFromStack(flagged)
    IN  [r.s EXCEPT !.PC = ToWord(r.v + 1)]

\* CPU::RTI
RTI(s) ==
    LET p == PopByteFromStack([s EXCEPT !.cycles = @ + 1])
        flagged == SetFlag([p.s EXCEPT !.P = p.v], FLAG_UNUSED, TRUE)
        r == PopWordFromStack(flagged)
    IN  [r.s EXCEPT !.PC = r.v]

\* BranchIf without the extra cycle of a taken branch that leaves the page
BranchIf_NoCrossCycle(s, condition) ==
    LET f == FetchByte(s)
        newPC == ToWord(f.s.PC + ToSignedByte(f.v))
    IN  IF condition
        THEN [f.s EXCEPT !.PC = newPC, !.cycles = @ + 1]
        ELSE f.s

\* BranchIf adding the operand as an unsigned byte
BranchIf_UnsignedOffset(s, condition) ==
    LET f == FetchByte(s)
        oldPC == f.s.PC
        newPC == ToWord(oldPC + f.v)
    IN  IF condition
        THEN [f.s EXCEPT !.PC = newPC,
                         !.cycles = @ + 1 + (IF PageCrossed(oldPC, newPC) THEN 1 ELSE 0)]
        ELSE f.s

\* CPU::BranchIf
BranchIf(s, condition) ==
    LET f == FetchByte(s)
        offset == ToSignedByte(f.v)
        oldPC == f.s.PC
        newPC == ToWord(oldPC + offset)
    IN  IF condition
        THEN [f.s EXCEPT !.PC = newPC,
                         !.cycles = @ + 1 + (IF PageCrossed(oldPC, newPC) THEN 1 ELSE 0)]
        ELSE f.s

\* case INS_JMP_IND without its page-boundary branch: always ReadWord(indirectAddr)
JMP_IND_Linear(s) ==
    LET f == FetchWord(s)
        t == ReadWord(f.s, f.v)
    IN  JMP(t.s, t.v)

\* the jump through a pointer of CPU::Execute, case INS_JMP_IND
JMP_IND(s) ==
    LET f == FetchWord(s)
        indirectAddr == f.v
    IN  IF BitAnd(indirectAddr, 255) = 255
        THEN LET lo == ReadByte(f.s, indirectAddr)
                 hi == ReadByte(lo.s, BitAnd(indirectAddr, 65280))
             IN  JMP(hi.s, BitOr(ToWord(hi.v * 256), lo.v))
        ELSE LET t == ReadWord(f.s, indirectAddr)
             IN  JMP(t.s, t.v)

(***************************************************************************)
(* Flag instructions.                                                      *)
(***************************************************************************)
\* CPU::CLC
CLC(s) == [SetFlag(s, FLAG_CARRY, FALSE) EXCEPT !.cycles = @ + 1]

\* CPU::CLD
CLD(s) == [SetFlag(s, FLAG_DECIMAL, FALSE) EXCEPT !.cycles = @ + 1]

\* CPU::CLI
CLI(s) == [SetFlag(s, FLAG_INTERRUPT, FALSE) EXCEPT !.cycles = @ + 1]

\* CPU::CLV
CLV(s) == [SetFlag(s, FLAG_OVERFLOW, FALSE) EXCEPT !.cycles = @ + 1]

\* CPU::SEC
SEC(s) == [SetFlag(s, FLAG_CARRY, TRUE) EXCEPT !.cycles = @ + 1]

\* CPU::SED
SED(s) == [SetFlag(s, FLAG_DECIMAL, TRUE) EXCEPT !.cycles = @ + 1]

\* CPU::SEI
SEI(s) == [SetFlag(s, FLAG_INTERRUPT, TRUE) EXCEPT !.cycles = @ + 1]

(***************************************************************************)
(* System instructions.                                                    *)
(***************************************************************************)
\* BRK pushing the address of its padding byte
BRK_PushesPadding(s) ==
    LET pushedPC == PushWordToStack([s EXCEPT !.PC = ToWord(s.PC + 1),
                                              !.cycles = @ + 1], s.PC)
        statusToStore == BitOr(BitOr(pushedPC.P, FLAG_BREAK), FLAG_UNUSED)
        pushedP == PushByteToStack(pushedPC, statusToStore)
        masked == SetFlag(pushedP, FLAG_INTERRUPT, TRUE)
        v == ReadWord(masked, VECTOR_IRQ_BRK)
    IN  [v.s EXCEPT !.PC = v.v]

\* CPU::BRK
BRK(s) ==
    LET pc == ToWord(s.PC + 1)
        pushedPC == PushWordToStack([s EXCEPT !.PC = pc, !.cycles = @ + 1], pc)
        statusToStore == BitOr(BitOr(pushedPC.P, FLAG_BREAK), FLAG_UNUSED)
        pushedP == PushByteToStack(pushedPC, statusToStore)
        masked == SetFlag(pushedP, FLAG_INTERRUPT, TRUE)
        v == ReadWord(masked, VECTOR_IRQ_BRK)
    IN  [v.s EXCEPT !.PC = v.v]

\* CPU::NOP
NOP(s) == [s EXCEPT !.cycles = @ + 1]

\* the default case taking the byte after an unknown opcode for its operand
UnknownOpcode_SkipsOperand(s) == [s EXCEPT !.cycles = @ + 1, !.PC = ToWord(@ + 1)]

\* the default case charging nothing beyond the opcode fetch
UnknownOpcode_Free(s) == s

\* CPU::Execute, the default case of the dispatch
UnknownOpcode(s) == [s EXCEPT !.cycles = @ + 1]

\* Constants.h: the opcode bytes INS_<name>, the canonical NMOS 6502 encoding
INS ==
    [ LDA_IM |-> \hA9, LDA_ZP |-> \hA5, LDA_ZPX |-> \hB5, LDA_ABS |-> \hAD,
      LDA_ABSX |-> \hBD, LDA_ABSY |-> \hB9, LDA_INDX |-> \hA1, LDA_INDY |-> \hB1,
      LDX_IM |-> \hA2, LDX_ZP |-> \hA6, LDX_ZPY |-> \hB6, LDX_ABS |-> \hAE,
      LDX_ABSY |-> \hBE, LDY_IM |-> \hA0, LDY_ZP |-> \hA4, LDY_ZPX |-> \hB4,
      LDY_ABS |-> \hAC, LDY_ABSX |-> \hBC, STA_ZP |-> \h85, STA_ZPX |-> \h95,
      STA_ABS |-> \h8D, STA_ABSX |-> \h9D, STA_ABSY |-> \h99, STA_INDX |-> \h81,
      STA_INDY |-> \h91, STX_ZP |-> \h86, STX_ZPY |-> \h96, STX_ABS |-> \h8E,
      STY_ZP |-> \h84, STY_ZPX |-> \h94, STY_ABS |-> \h8C, TAX |-> \hAA,
      TAY |-> \hA8, TXA |-> \h8A, TYA |-> \h98, TSX |-> \hBA,
      TXS |-> \h9A, PHA |-> \h48, PHP |-> \h08, PLA |-> \h68,
      PLP |-> \h28, AND_IM |-> \h29, AND_ZP |-> \h25, AND_ZPX |-> \h35,
      AND_ABS |-> \h2D, AND_ABSX |-> \h3D, AND_ABSY |-> \h39, AND_INDX |-> \h21,
      AND_INDY |-> \h31, ORA_IM |-> \h09, ORA_ZP |-> \h05, ORA_ZPX |-> \h15,
      ORA_ABS |-> \h0D, ORA_ABSX |-> \h1D, ORA_ABSY |-> \h19, ORA_INDX |-> \h01,
      ORA_INDY |-> \h11, EOR_IM |-> \h49, EOR_ZP |-> \h45, EOR_ZPX |-> \h55,
      EOR_ABS |-> \h4D, EOR_ABSX |-> \h5D, EOR_ABSY |-> \h59, EOR_INDX |-> \h41,
      EOR_INDY |-> \h51, BIT_ZP |-> \h24, BIT_ABS |-> \h2C, ADC_IM |-> \h69,
      ADC_ZP |-> \h65, ADC_ZPX |-> \h75, ADC_ABS |-> \h6D, ADC_ABSX |-> \h7D,
      ADC_ABSY |-> \h79, ADC_INDX |-> \h61, ADC_INDY |-> \h71, SBC_IM |-> \hE9,
      SBC_ZP |-> \hE5, SBC_ZPX |-> \hF5, SBC_ABS |-> \hED, SBC_ABSX |-> \hFD,
      SBC_ABSY |-> \hF9, SBC_INDX |-> \hE1, SBC_INDY |-> \hF1, CMP_IM |-> \hC9,
      CMP_ZP |-> \hC5, CMP_ZPX |-> \hD5, CMP_ABS |-> \hCD, CMP_ABSX |-> \hDD,
      CMP_ABSY |-> \hD9, CMP_INDX |-> \hC1, CMP_INDY |-> \hD1, CPX_IM |-> \hE0,
      CPX_ZP |-> \hE4, CPX_ABS |-> \hEC, CPY_IM |-> \hC0, CPY_ZP |-> \hC4,
      CPY_ABS |-> \hCC, INC_ZP |-> \hE6, INC_ZPX |-> \hF6, INC_ABS |-> \hEE,
      INC_ABSX |-> \hFE, INX |-> \hE8, INY |-> \hC8, DEC_ZP |-> \hC6,
      DEC_ZPX |-> \hD6, DEC_ABS |-> \hCE, DEC_ABSX |-> \hDE, DEX |-> \hCA,
      DEY |-> \h88, ASL_ACC |-> \h0A, ASL_ZP |-> \h06, ASL_ZPX |-> \h16,
      ASL_ABS |-> \h0E, ASL_ABSX |-> \h1E, LSR_ACC |-> \h4A, LSR_ZP |-> \h46,
      LSR_ZPX |-> \h56, LSR_ABS |-> \h4E, LSR_ABSX |-> \h5E, ROL_ACC |-> \h2A,
      ROL_ZP |-> \h26, ROL_ZPX |-> \h36, ROL_ABS |-> \h2E, ROL_ABSX |-> \h3E,
      ROR_ACC |-> \h6A, ROR_ZP |-> \h66, ROR_ZPX |-> \h76, ROR_ABS |-> \h6E,
      ROR_ABSX |-> \h7E, JMP_ABS |-> \h4C, JMP_IND |-> \h6C, JSR |-> \h20,
      RTS |-> \h60, RTI |-> \h40, BCC |-> \h90, BCS |-> \hB0,
      BEQ |-> \hF0, BMI |-> \h30, BNE |-> \hD0, BPL |-> \h10,
      BVC |-> \h50, BVS |-> \h70, CLC |-> \h18, CLD |-> \hD8,
      CLI |-> \h58, CLV |-> \hB8, SEC |-> \h38, SED |-> \hF8,
      SEI |-> \h78, BRK |-> \h00, NOP |-> \hEA ]

\* an instruction applied to the effective address an addressing mode yields
OnAddr(Ins(_, _), m) == Ins(m.s, m.addr)

\* CPU::Execute(Memory&), the switch on the opcode; s is the state after the opcode fetch
Dispatch(s, opcode) ==
    CASE opcode = INS.LDA_IM -> OnAddr(LDA, AddrImmediate(s))
      [] opcode = INS.LDA_ZP -> OnAddr(LDA, AddrZeroPage(s))
      [] opcode = INS.LDA_ZPX -> OnAddr(LDA, AddrZeroPageX(s))
      [] opcode = INS.LDA_ABS -> OnAddr(LDA, AddrAbsolute(s))
      [] opcode = INS.LDA_ABSX -> OnAddr(LDA, AddrAbsoluteX(s, DefaultAddCycle))
      [] opcode = INS.LDA_ABSY -> OnAddr(LDA, AddrAbsoluteY(s, DefaultAddCycle))
      [] opcode = INS.LDA_INDX -> OnAddr(LDA, AddrIndexedIndirect(s))
      [] opcode = INS.LDA_INDY -> OnAddr(LDA, AddrIndirectIndexed(s, DefaultAddCycle))
      [] opcode = INS.LDX_IM -> OnAddr(LDX, AddrImmediate(s))
      [] opcode = INS.LDX_ZP -> OnAddr(LDX, AddrZeroPage(s))
      [] opcode = INS.LDX_ZPY -> OnAddr(LDX, AddrZeroPageY(s))
      [] opcode = INS.LDX_ABS -> OnAddr(LDX, AddrAbsolute(s))
      [] opcode = INS.LDX_ABSY -> OnAddr(LDX, AddrAbsoluteY(s, DefaultAddCycle))
      [] opcode = INS.LDY_IM -> OnAddr(LDY, AddrImmediate(s))
      [] opcode = INS.LDY_ZP -> OnAddr(LDY, AddrZeroPage(s))
      [] opcode = INS.LDY_ZPX -> OnAddr(LDY, AddrZeroPageX(s))
      [] opcode = INS.LDY_ABS -> OnAddr(LDY, AddrAbsolute(s))
      [] opcode = INS.LDY_ABSX -> OnAddr(LDY, AddrAbsoluteX(s, DefaultAddCycle))
      [] opcode = INS.STA_ZP -> OnAddr(STA, AddrZeroPage(s))
      [] opcode = INS.STA_ZPX -> OnAddr(STA, AddrZeroPageX(s))
      [] opcode = INS.STA_ABS -> OnAddr(STA, AddrAbsolute(s))
      [] opcode = INS.STA_ABSX -> OnAddr(STA, AddrAbsoluteX(s, FALSE))
      [] opcode = INS.STA_ABSY -> OnAddr(STA, AddrAbsoluteY(s, FALSE))
      [] opcode = INS.STA_INDX -> OnAddr(STA, AddrIndexedIndirect(s))
      [] opcode = INS.STA_INDY -> OnAddr(STA, AddrIndirectIndexed(s, FALSE))
      [] opcode = INS.STX_ZP -> OnAddr(STX, AddrZeroPage(s))
      [] opcode = INS.STX_ZPY -> OnAddr(STX, AddrZeroPageY(s))
      [] opcode = INS.STX_ABS -> OnAddr(STX, AddrAbsolute(s))
      [] opcode = INS.STY_ZP -> OnAddr(STY, AddrZeroPage(s))
      [] opcode = INS.STY_ZPX -> OnAddr(STY, AddrZeroPageX(s))
      [] opcode = INS.STY_ABS -> OnAddr(STY, AddrAbsolute(s))
      [] opcode = INS.TAX -> TAX(s)
      [] opcode = INS.TAY -> TAY(s)
      [] opcode = INS.TXA -> TXA(s)
      [] opcode = INS.TYA -> TYA(s)
      [] opcode = INS.TSX -> TSX(s)
      [] opcode = INS.TXS -> TXS(s)
      [] opcode = INS.PHA -> PHA(s)
      [] opcode = INS.PHP -> PHP(s)
      [] opcode = INS.PLA -> PLA(s)
      [] opcode = INS.PLP -> PLP(s)
      [] opcode = INS.AND_IM -> OnAddr(AND, AddrImmediate(s))
      [] opcode = INS.AND_ZP -> OnAddr(AND, AddrZeroPage(s))
      [] opcode = INS.AND_ZPX -> OnAddr(AND, AddrZeroPageX(s))
      [] opcode = INS.AND_ABS -> OnAddr(AND, AddrAbsolute(s))
      [] opcode = INS.AND_ABSX -> OnAddr(AND, AddrAbsoluteX(s, DefaultAddCycle))
      [] opcode = INS.AND_ABSY -> OnAddr(AND, AddrAbsoluteY(s, DefaultAddCycle))
      [] opcode = INS.AND_INDX -> OnAddr(AND, AddrIndexedIndirect(s))
      [] opcode = INS.AND_INDY -> OnAddr(AND, AddrIndirectIndexed(s, DefaultAddCycle))
      [] opcode = INS.ORA_IM -> OnAddr(ORA, AddrImmediate(s))
      [] opcode = INS.ORA_ZP -> OnAddr(ORA, AddrZeroPage(s))
      [] opcode = INS.ORA_ZPX -> OnAddr(ORA, AddrZeroPageX(s))
      [] opcode = INS.ORA_ABS -> OnAddr(ORA, AddrAbsolute(s))
      [] opcode = INS.ORA_ABSX -> OnAddr(ORA, AddrAbsoluteX(s, DefaultAddCycle))
      [] opcode = INS.ORA_ABSY -> OnAddr(ORA, AddrAbsoluteY(s, DefaultAddCycle))
      [] opcode = INS.ORA_INDX -> OnAddr(ORA, AddrIndexedIndirect(s))
      [] opcode = INS.ORA_INDY -> OnAddr(ORA, AddrIndirectIndexed(s, DefaultAddCycle))
      [] opcode = INS.EOR_IM -> OnAddr(EOR, AddrImmediate(s))
      [] opcode = INS.EOR_ZP -> OnAddr(EOR, AddrZeroPage(s))
      [] opcode = INS.EOR_ZPX -> OnAddr(EOR, AddrZeroPageX(s))
      [] opcode = INS.EOR_ABS -> OnAddr(EOR, AddrAbsolute(s))
      [] opcode = INS.EOR_ABSX -> OnAddr(EOR, AddrAbsoluteX(s, DefaultAddCycle))
      [] opcode = INS.EOR_ABSY -> OnAddr(EOR, AddrAbsoluteY(s, DefaultAddCycle))
      [] opcode = INS.EOR_INDX -> OnAddr(EOR, AddrIndexedIndirect(s))
      [] opcode = INS.EOR_INDY -> OnAddr(EOR, AddrIndirectIndexed(s, DefaultAddCycle))
      [] opcode = INS.BIT_ZP -> OnAddr(BIT, AddrZeroPage(s))
      [] opcode = INS.BIT_ABS -> OnAddr(BIT, AddrAbsolute(s))
      [] opcode = INS.ADC_IM -> OnAddr(ADC, AddrImmediate(s))
      [] opcode = INS.ADC_ZP -> OnAddr(ADC, AddrZeroPage(s))
      [] opcode = INS.ADC_ZPX -> OnAddr(ADC, AddrZeroPageX(s))
      [] opcode = INS.ADC_ABS -> OnAddr(ADC, AddrAbsolute(s))
      [] opcode = INS.ADC_ABSX -> OnAddr(ADC, AddrAbsoluteX(s, DefaultAddCycle))
      [] opcode = INS.ADC_ABSY -> OnAddr(ADC, AddrAbsoluteY(s, DefaultAddCycle))
      [] opcode = INS.ADC_INDX -> OnAddr(ADC, AddrIndexedIndirect(s))
      [] opcode = INS.ADC_INDY -> OnAddr(ADC, AddrIndirectIndexed(s, DefaultAddCycle))
      [] opcode = INS.SBC_IM -> OnAddr(SBC, AddrImmediate(s))
      [] opcode = INS.SBC_ZP -> OnAddr(SBC, AddrZeroPage(s))
      [] opcode = INS.SBC_ZPX -> OnAddr(SBC, AddrZeroPageX(s))
      [] opcode = INS.SBC_ABS -> OnAddr(SBC, AddrAbsolute(s))
      [] opcode = INS.SBC_ABSX -> OnAddr(SBC, AddrAbsoluteX(s, DefaultAddCycle))
      [] opcode = INS.SBC_ABSY -> OnAddr(SBC, AddrAbsoluteY(s, DefaultAddCycle))
      [] opcode = INS.SBC_INDX -> OnAddr(SBC, AddrIndexedIndirect(s))
      [] opcode = INS.SBC_INDY -> OnAddr(SBC, AddrIndirectIndexed(s, DefaultAddCycle))
      [] opcode = INS.CMP_IM -> OnAddr(CMP, AddrImmediate(s))
      [] opcode = INS.CMP_ZP -> OnAddr(CMP, AddrZeroPage(s))
      [] opcode = INS.CMP_ZPX -> OnAddr(CMP, AddrZeroPageX(s))
      [] opcode = INS.CMP_ABS -> OnAddr(CMP, AddrAbsolute(s))
      [] opcode = INS.CMP_ABSX -> OnAddr(CMP, AddrAbsoluteX(s, DefaultAddCycle))
      [] opcode = INS.CMP_ABSY -> OnAddr(CMP, AddrAbsoluteY(s, DefaultAddCycle))
      [] opcode = INS.CMP_INDX -> OnAddr(CMP, AddrIndexedIndirect(s))
      [] opcode = INS.CMP_INDY -> OnAddr(CMP, AddrIndirectIndexed(s, DefaultAddCycle))
      [] opcode = INS.CPX_IM -> OnAddr(CPX, AddrImmediate(s))
      [] opcode = INS.CPX_ZP -> OnAddr(CPX, AddrZeroPage(s))
      [] opcode = INS.CPX_ABS -> OnAddr(CPX, AddrAbsolute(s))
      [] opcode = INS.CPY_IM -> OnAddr(CPY, AddrImmediate(s))
      [] opcode = INS.CPY_ZP -> OnAddr(CPY, AddrZeroPage(s))
      [] opcode = INS.CPY_ABS -> OnAddr(CPY, AddrAbsolute(s))
      [] opcode = INS.INC_ZP -> OnAddr(INC, AddrZeroPage(s))
      [] opcode = INS.INC_ZPX -> OnAddr(INC, AddrZeroPageX(s))
      [] opcode = INS.INC_ABS -> OnAddr(INC, AddrAbsolute(s))
      [] opcode = INS.INC_ABSX -> OnAddr(INC, AddrAbsoluteX(s, FALSE))
      [] opcode = INS.INX -> INX(s)
      [] opcode = INS.INY -> INY(s)
      [] opcode = INS.DEC_ZP -> OnAddr(DEC, AddrZeroPage(s))
      [] opcode = INS.DEC_ZPX -> OnAddr(DEC, AddrZeroPageX(s))
      [] opcode = INS.DEC_ABS -> OnAddr(DEC, AddrAbsolute(s))
      [] opcode = INS.DEC_ABSX -> OnAddr(DEC, AddrAbsoluteX(s, FALSE))
      [] opcode = INS.DEX -> DEX(s)
      [] opcode = INS.DEY -> DEY(s)
      [] opcode = INS.ASL_ACC -> ASL_ACC(s)
      [] opcode = INS.ASL_ZP -> OnAddr(ASL_MEM, AddrZeroPage(s))
      [] opcode = INS.ASL_ZPX -> OnAddr(ASL_MEM, AddrZeroPageX(s))
      [] opcode = INS.ASL_ABS -> OnAddr(ASL_MEM, AddrAbsolute(s))
      [] opcode = INS.ASL_ABSX -> OnAddr(ASL_MEM, AddrAbsoluteX(s, FALSE))
      [] opcode = INS.LSR_ACC -> LSR_ACC(s)
      [] opcode = INS.LSR_ZP -> OnAddr(LSR_MEM, AddrZeroPage(s))
      [] opcode = INS.LSR_ZPX -> OnAddr(LSR_MEM, AddrZeroPageX(s))
      [] opcode = INS.LSR_ABS -> OnAddr(LSR_MEM, AddrAbsolute(s))
      [] opcode = INS.LSR_ABSX -> OnAddr(LSR_MEM, AddrAbsoluteX(s, FALSE))
      [] opcode = INS.ROL_ACC -> ROL_ACC(s)
      [] opcode = INS.ROL_ZP -> OnAddr(ROL_MEM, AddrZeroPage(s))
      [] opcode = INS.ROL_ZPX -> OnAddr(ROL_MEM, AddrZeroPageX(s))
      [] opcode = INS.ROL_ABS -> OnAddr(ROL_MEM, AddrAbsolute(s))
      [] opcode = INS.ROL_ABSX -> OnAddr(ROL_MEM, AddrAbsoluteX(s, FALSE))
      [] opcode = INS.ROR_ACC -> ROR_ACC(s)
      [] opcode = INS.ROR_ZP -> OnAddr(ROR_MEM, AddrZeroPage(s))
      [] opcode = INS.ROR_ZPX -> OnAddr(ROR_MEM, AddrZeroPageX(s))
      [] opcode = INS.ROR_ABS -> OnAddr(ROR_MEM, AddrAbsolute(s))
      [] opcode = INS.ROR_ABSX -> OnAddr(ROR_MEM, AddrAbsoluteX(s, FALSE))
      [] opcode = INS.JMP_ABS -> OnAddr(JMP, AddrAbsolute(s))
      [] opcode = INS.JMP_IND -> JMP_IND(s)
      [] opcode = INS.JSR -> OnAddr(JSR, AddrAbsolute(s))
      [] opcode = INS.RTS -> RTS(s)
      [] opcode = INS.RTI -> RTI(s)
      [] opcode = INS.BCC -> BranchIf(s, ~GetFlag(s, FLAG_CARRY))
      [] opcode = INS.BCS -> BranchIf(s, GetFlag(s, FLAG_CARRY))
      [] opcode = INS.BEQ -> BranchIf(s, GetFlag(s, FLAG_ZERO))
      [] opcode = INS.BMI -> BranchIf(s, GetFlag(s, FLAG_NEGATIVE))
      [] opcode = INS.BNE -> BranchIf(s, ~GetFlag(s, FLAG_ZERO))
      [] opcode = INS.BPL -> BranchIf(s, ~GetFlag(s, FLAG_NEGATIVE))
      [] opcode = INS.BVC -> BranchIf(s, ~GetFlag(s, FLAG_OVERFLOW))
      [] opcode = INS.BVS -> BranchIf(s, GetFlag(s, FLAG_OVERFLOW))
      [] opcode = INS.CLC -> CLC(s)
      [] opcode = INS.CLD -> CLD(s)
      [] opcode = INS.CLI -> CLI(s)
      [] opcode = INS.CLV -> CLV(s)
      [] opcode = INS.SEC -> SEC(s)
      [] opcode = INS.SED -> SED(s)
      [] opcode = INS.SEI -> SEI(s)
      [] opcode = INS.BRK -> BRK(s)
      [] opcode = INS.NOP -> NOP(s)
      [] OTHER -> UnknownOpcode(s)

\* CPU::Execute(Memory&), the switch entered with the opcode FetchByte returned
DispatchFetched(f) == Dispatch(f.s, f.v)

\* Execute(Memory&) without its TotalCycles += cyclesUsed line
Retire_Dropped(s) == s

\* CPU::Execute(Memory&), after the switch: TotalCycles += cyclesUsed
Retire(s) == [s EXCEPT !.TotalCycles = @ + s.cycles]

\* CPU::Execute(Memory&): one instruction; the result's cycles is the value returned
Execute(s) == Retire(DispatchFetched(FetchByte([s EXCEPT !.cycles = 0])))

\* CPU::Execute(Cycles, Memory&): the while loop, from cyclesExecuted on.  n counts
\* the instructions executed and before is cyclesExecuted as the last one began.
RECURSIVE ExecuteLoop(_, _, _, _, _)
\* the loop body: e is the state Execute(memory) left, e.cycles its instructionCycles
ExecuteBody(e, cycles, cyclesExecuted, n) ==
    ExecuteLoop(e, cycles, cyclesExecuted + e.cycles, n + 1, cyclesExecuted)

\* the while loop with the condition cyclesExecuted <= cycles
ExecuteLoop_Inclusive(s, cycles, cyclesExecuted, n, before) ==
    IF cyclesExecuted <= cycles
    THEN ExecuteBody(Execute(s), cycles, cyclesExecuted, n)
    ELSE [s |-> s, ret |-> cyclesExecuted, n |-> n, before |-> before]

ExecuteLoop(s, cycles, cyclesExecuted, n, before) ==
    IF cyclesExecuted < cycles
    THEN ExecuteBody(Execute(s), cycles, cyclesExecuted, n)
    ELSE [s |-> s, ret |-> cyclesExecuted, n |-> n, before |-> before]

\* CPU::Execute(Cycles, Memory&)
ExecuteFor(s, cycles) == ExecuteLoop(s, cycles, 0, 0, 0)

\* Reset with TotalCycles += 8, the two cycles of the vector read charged twice
ResetCPU_ChargedTwice(s) ==
    LET r == ReadWord([s EXCEPT !.cycles = s.TotalCycles], VECTOR_RESET)
        flagged == SetFlag([r.s EXCEPT !.P = FLAG_UNUSED], FLAG_INTERRUPT, TRUE)
    IN  [flagged EXCEPT !.PC = r.v,
                        !.SP = STACK_POINTER_RESET,
                        !.A = 0, !.X = 0, !.Y = 0,
                        !.TotalCycles = r.s.cycles + 8]

\* Reset with SP -= 3, as the hardware sequence does, in place of SP = 0xFD
ResetCPU_DecrementsSP(s) ==
    LET r == ReadWord([s EXCEPT !.cycles = s.TotalCycles], VECTOR_RESET)
        flagged == SetFlag([r.s EXCEPT !.P = FLAG_UNUSED], FLAG_INTERRUPT, TRUE)
    IN  [flagged EXCEPT !.PC = r.v,
                        !.SP = ToByte(s.SP - 3),
                        !.A = 0, !.X = 0, !.Y = 0,
                        !.TotalCycles = r.s.cycles + 6]

\* CPU::Reset; Memory::ReadWord charges TotalCycles itself
ResetCPU(s) ==
    LET r == ReadWord([s EXCEPT !.cycles = s.TotalCycles], VECTOR_RESET)
        flagged == SetFlag([r.s EXCEPT !.P = FLAG_UNUSED], FLAG_INTERRUPT, TRUE)
    IN  [flagged EXCEPT !.PC = r.v,
                        !.SP = STACK_POINTER_RESET,
                        !.A = 0, !.X = 0, !.Y = 0,
                        !.TotalCycles = r.s.cycles + 6]

\* CPU::CPU
ConstructedCPU == [A |-> 0, X |-> 0, Y |-> 0, PC |-> 0, SP |-> 0, P |-> 0,
                   TotalCycles |-> 0]

(***************************************************************************)
(* The state machine.                                                      *)
(***************************************************************************)
\* the registers and the memory, as one value
Snapshot ==
    [A |-> A, X |-> X, Y |-> Y, PC |-> PC, SP |-> SP, P |-> P,
     TotalCycles |-> TotalCycles, data |-> data]

\* the state a call starts from
Entry ==
    [A |-> A, X |-> X, Y |-> Y, PC |-> PC, SP |-> SP, P |-> P,
     TotalCycles |-> TotalCycles, data |-> data,
     cycles |-> 0, log |-> <<>>, stack |-> <<>>]

\* the registers and the memory a call leaves
Leave(s) ==
    /\ A' = s.A
    /\ X' = s.X
    /\ Y' = s.Y
    /\ PC' = s.PC
    /\ SP' = s.SP
    /\ P' = s.P
    /\ TotalCycles' = s.TotalCycles
    /\ data' = s.data

\* the history record of one public operation
Record(op, s, opcode, ret, budget, n, before) ==
    [op |-> op, pre |-> Snapshot, opcode |-> opcode, ret |-> ret,
     budget |-> budget, n |-> n, before |-> before,
     log |-> s.log, stack |-> s.stack]

\* the state after a call that ended in s, and its history record
Return(op, s, ret, budget, n, before) ==
    /\ Leave(s)
    /\ hist' = Append(hist, Record(op, s, Cell(data, PC), ret, budget, n, before))

ReturnStep(s) == Return("step", s, s.cycles, 0, 1, 0)

ReturnRun(r, cycles) == Return("run", r.s, r.ret, cycles, r.n, r.before)

\* cpu.Reset(memory)
Reset ==
    /\ Len(hist) < MaxOps
    /\ Return("reset", ResetCPU(Entry), 0, 0, 0, 0)
    /\ reset' = TRUE

\* cpu.Execute(memory)
Step ==
    /\ Len(hist) < MaxOps
    /\ ReturnStep(Execute(Entry))
    /\ UNCHANGED reset

\* cpu.Execute(cycles, memory)
RunFor(cycles) ==
    /\ Len(hist) < MaxOps
    /\ ReturnRun(ExecuteFor(Entry, cycles), cycles)
    /\ UNCHANGED reset

\* the cycle budgets a host hands to Execute(cycles, memory)
Budgets == {0, 1, MaxBudget}

\* the bytes a host program is assembled at (main.cpp)
ORG == \h1000

\* memory[address + i] = bytes[i + 1] for each byte given, as a host loader does
Load(d, address, bytes) ==
    LET Put[i \in 0..Len(bytes)] ==
            IF i = 0 THEN d ELSE Store(Put[i - 1], ToWord(address + i - 1), bytes[i])
    IN  Put[Len(bytes)]

(***************************************************************************)
(* The memories a host builds: segs is a sequence of <<address, bytes>>,   *)
(* each loaded in turn.                                                    *)
(***************************************************************************)
LoadAll(segs) ==
    LET Put[i \in 0..Len(segs)] ==
            IF i = 0 THEN EmptyMemory ELSE Load(Put[i - 1], segs[i][1], segs[i][2])
    IN  Put[Len(segs)]

\* a Word as the two bytes memory holds, low byte first
Bytes(word) == <<word % 256, word \div 256>>

\* the reset vector pointing at a program, the program, and bytes left at both
\* ends of the stack page
Image(vector, prog, fill) ==
    LoadAll(<< <<VECTOR_RESET, Bytes(vector)>>,
               <<vector, prog>>,
               <<STACK_BASE, <<fill, fill, fill>> >>,
               <<STACK_BASE + 253, <<fill, fill, fill>> >> >>)

\* programs that use the stack, return, break, hit undefined opcodes, jump to
\* themselves and loop
Programs ==
    { <<INS.PLP>>,
      <<INS.RTI>>,
      <<INS.PHP, INS.PLP>>,
      <<INS.LDA_IM, \h80, INS.PHA, INS.PLA>>,
      <<INS.TXS, INS.PHA, INS.PLA>>,
      <<INS.TXS, INS.BRK>>,
      <<INS.DEX, INS.TXS, INS.RTI>>,
      <<INS.DEX, INS.TXS, INS.RTS>>,
      <<INS.JSR, \h05, \h10, INS.NOP, INS.NOP, INS.RTS>>,
      <<INS.BRK>>,
      <<\h02, INS.SED, INS.SEC>>,
      <<\h02, \h03, \h04, \h07, \h0B, \h0C>>,
      <<INS.JMP_ABS, \h00, \h10>>,
      <<INS.LDX_IM, \h05, INS.DEX, INS.BNE, \hFD>> }

\* bytes found on the stack page: none, all flags but Unused, all ones
StackFills == {\h00, \hDF, \hFF}

\* where the reset vector points: the program origin of main.cpp, the last address
Vectors == {ORG, \hFFFF}

Images ==
    {Image(vector, prog, fill) : vector \in Vectors, prog \in Programs, fill \in StackFills}

\* the CPU as constructed and a memory the host has built
Init ==
    /\ A = ConstructedCPU.A
    /\ X = ConstructedCPU.X
    /\ Y = ConstructedCPU.Y
    /\ PC = ConstructedCPU.PC
    /\ SP = ConstructedCPU.SP
    /\ P = ConstructedCPU.P
    /\ TotalCycles = ConstructedCPU.TotalCycles
    /\ data \in Images
    /\ reset = FALSE
    /\ hist = <<>>

Next ==
    \/ Reset
    \/ Step
    \/ \E cycles \in Budgets : RunFor(cycles)

Spec == Init /\ [][Next]_vars


(***************************************************************************)
(* A CPU that has been reset and has run for a while: any registers, bit 5  *)
(* of P set, about to execute one instruction.                             *)
(***************************************************************************)
\* register contents a program leaves, and the byte it left on the stack page
RegisterFiles ==
    { [A |-> \h00, X |-> \h00, Y |-> \h00, SP |-> \hFD, P |-> \h24, fill |-> \h00],
      [A |-> \h81, X |-> \hFF, Y |-> \h01, SP |-> \h00, P |-> \hFF, fill |-> \hDF],
      [A |-> \h7F, X |-> \h01, Y |-> \hFF, SP |-> \hFF, P |-> \h29, fill |-> \hFF],
      [A |-> \hFF, X |-> \h80, Y |-> \h80, SP |-> \h01, P |-> \hE2, fill |-> \h10] }

\* the two bytes after the opcode
OperandSamples == { <<\h00, \h00>>, <<\hFF, \h10>>, <<\h80, \hFF>> }

\* every byte that can stand where an opcode is fetched
OpcodeBytes == 0..255

\* TotalCycles once Reset has returned on a new CPU
AfterResetCycles == ConstructedCPU.TotalCycles + 8

\* the registers r, the program counter at code loaded at pc
Running(r, pc, d) ==
    /\ A = r.A
    /\ X = r.X
    /\ Y = r.Y
    /\ SP = r.SP
    /\ P = r.P
    /\ PC = pc
    /\ TotalCycles = AfterResetCycles
    /\ data = d
    /\ reset = TRUE
    /\ hist = <<>>

InitOpcodes ==
    \E r \in RegisterFiles, pc \in Vectors, opcode \in OpcodeBytes,
       operands \in OperandSamples :
        Running(r, pc, Image(pc, <<opcode>> \o operands, r.fill))

\* the host only calls cpu.Execute(memory)
NextStep == Step

SpecOpcodes == InitOpcodes /\ [][NextStep]_vars

(***************************************************************************)
(* Programs that push and pop, started at every stack pointer.             *)
(***************************************************************************)
\* where the IRQ/BRK vector of these programs points
HANDLER == \h2000

StackPrograms ==
    { <<INS.PHA, INS.PLA>>,
      <<INS.PHA, INS.LDA_IM, \h00, INS.PLA>>,
      <<INS.PHA, INS.LDA_IM, \h80, INS.PLA>>,
      <<INS.PHA, INS.TXA, INS.INX, INS.PLA>>,
      <<INS.PHP, INS.PLP>>,
      <<INS.PHA, INS.PLP>>,
      <<INS.PHP, INS.PLA>>,
      <<INS.PLA, INS.PHA>>,
      <<INS.JSR, \h05, \h10, INS.NOP, INS.NOP, INS.RTS>>,
      <<INS.BRK, INS.NOP, INS.PHA>>,
      <<INS.RTS>>,
      <<INS.RTI>> }

\* accumulator, status and index register as the program starts
StackRegisters ==
    { [A |-> \h00, X |-> \h01, P |-> \hA4],
      [A |-> \h01, X |-> \h00, P |-> \h26],
      [A |-> \h7F, X |-> \h80, P |-> \hE7],
      [A |-> \h80, X |-> \h7F, P |-> \h20],
      [A |-> \hFF, X |-> \hFF, P |-> \h2D] }

StackPointers == 0..255

\* the program at ORG, an RTI at HANDLER, and a stack page that is not empty
StackImage(prog) ==
    LoadAll(<< <<VECTOR_RESET, Bytes(ORG)>>,
               <<VECTOR_IRQ_BRK, Bytes(HANDLER)>>,
               <<HANDLER, <<INS.RTI>> >>,
               <<STACK_BASE, <<\h34, \h12, \hDF>> >>,
               <<STACK_BASE + 253, <<\h00, \h04, \h10>> >>,
               <<ORG, prog>> >>)

InitStack ==
    \E r \in StackRegisters, sp \in StackPointers, prog \in StackPrograms :
        Running([A |-> r.A, X |-> r.X, Y |-> 0, SP |-> sp, P |-> r.P], ORG,
                StackImage(prog))

SpecStack == InitStack /\ [][NextStep]_vars

(***************************************************************************)
(* Properties of the public operations, read off the history.              *)
(***************************************************************************)
\* the record of the operation that returned last
Last == hist[Len(hist)]

\* the operation that returned last was op
Returned(op) == Len(hist) > 0 /\ Last.op = op

\* bit 5 of a status byte
UnusedSet(p) == BitAnd(p, FLAG_UNUSED) # 0

\* the little-endian word memory d holds at address and address + 1
WordAt(d, address) == Cell(d, address) + 256 * Cell(d, ToWord(address + 1))

\* C2: after any public operation (construction, reset, step, run_for), in any
\* order and for any memory, bit 5 (Unused) of P is 1.
C2_UnusedAfterAnyOperation == UnusedSet(P)

\* C3: once Reset has been called, bit 5 (Unused) of P is 1 after every later step
\* (alone or within run_for), also when PLP or RTI pops a byte whose bit 5 is 0.
C3_UnusedAfterReset ==
    (reset /\ (Returned("step") \/ Returned("run"))) => UnusedSet(P)

\* a step after Reset has executed PLP or RTI and popped a status byte with bit 5 clear
C3_Witness ==
    /\ reset
    /\ Returned("step")
    /\ Last.opcode \in {INS.PLP, INS.RTI}
    /\ Last.stack[1].op = "pop"
    /\ ~UnusedSet(Last.stack[1].value)

\* C4: Reset, from any prior CPU state, sets PC to the little-endian word at
\* 0xFFFC/0xFFFD, SP to 0xFD, P to 0x24 and A, X, Y to 0, adds exactly 8 to
\* TotalCycles and leaves every memory byte unchanged.
C4_ResetPostcondition ==
    Returned("reset") =>
        /\ PC = WordAt(Last.pre.data, \hFFFC)
        /\ SP = \hFD
        /\ P = \h24
        /\ A = 0 /\ X = 0 /\ Y = 0
        /\ TotalCycles = Last.pre.TotalCycles + 8
        /\ data = Last.pre.data

\* Reset has returned from a state a program had left: A, P, SP and PC were not
\* at their reset values
C4_Witness ==
    /\ Returned("reset")
    /\ Last.pre.A # 0
    /\ Last.pre.P # \h24
    /\ Last.pre.SP # \hFD
    /\ Last.pre.PC # PC
    /\ Last.pre.TotalCycles > 8

\* C5: Reset called twice in succession gives the same A, X, Y, PC, SP and P after
\* the second call as after the first, and TotalCycles advances by 8 on each call.
C5_ResetIdempotent ==
    (Len(hist) >= 2 /\ Last.op = "reset" /\ hist[Len(hist) - 1].op = "reset") =>
        /\ A = Last.pre.A /\ X = Last.pre.X /\ Y = Last.pre.Y
        /\ PC = Last.pre.PC /\ SP = Last.pre.SP /\ P = Last.pre.P
        /\ Last.pre.TotalCycles = hist[Len(hist) - 1].pre.TotalCycles + 8
        /\ TotalCycles = Last.pre.TotalCycles + 8

\* two Resets in succession, the first from a state that was not a reset state
C5_Witness ==
    /\ Len(hist) >= 2
    /\ Last.op = "reset"
    /\ hist[Len(hist) - 1].op = "reset"
    /\ hist[Len(hist) - 1].pre.SP # \hFD
    /\ hist[Len(hist) - 1].pre.P # \h24

\* C6: Execute(cycles, memory) runs whole instructions and returns r >= cycles; the
\* cycles accumulated when the last instruction began were < cycles; TotalCycles
\* grows by exactly r; with a budget of 0 nothing is executed and 0 is returned.
C6_RunForBudget ==
    Returned("run") =>
        /\ Last.ret >= Last.budget
        /\ Last.n > 0 => Last.before < Last.budget
        /\ TotalCycles = Last.pre.TotalCycles + Last.ret
        /\ Last.budget = 0 => (Last.n = 0 /\ Last.ret = 0 /\ Snapshot = Last.pre)
        /\ Last.budget > 0 => Last.n > 0

\* a run of several instructions that overshot its budget
C6_Witness ==
    /\ Returned("run")
    /\ Last.budget = MaxBudget
    /\ Last.ret > Last.budget
    /\ Last.n >= 3

(***************************************************************************)
(* Properties of single instructions.                                      *)
(***************************************************************************)
\* the bytes the dispatch has a case for
LegalOpcodes == {INS[name] : name \in DOMAIN INS}

\* C1: over every sequence of Execute(memory) calls TotalCycles never decreases, and
\* the value each call returns is exactly the amount TotalCycles grew by in it.
C1_CyclesGrowByReturn ==
    Returned("step") =>
        /\ TotalCycles >= Last.pre.TotalCycles
        /\ Last.ret = TotalCycles - Last.pre.TotalCycles
        /\ \A i \in 1..(Len(hist) - 1) :
               hist[i + 1].pre.TotalCycles = hist[i].pre.TotalCycles + hist[i].ret

\* a third step or later has returned, and it cost more than the two cycles of the
\* cheapest instruction
C1_Witness ==
    /\ Returned("step")
    /\ Len(hist) >= 3
    /\ Last.ret > 2
    /\ hist[1].ret > 2
    /\ TotalCycles > AfterResetCycles + 6

\* C7: for every opcode byte the dispatch has no case for, Execute(memory) returns 2
\* (the fetch and one more cycle), PC has advanced by exactly 1 (mod 65536), and
\* A, X, Y, SP, P and every memory byte are unchanged.
C7_UnknownOpcode ==
    (Returned("step") /\ Last.opcode \notin LegalOpcodes) =>
        /\ Last.ret = 2
        /\ PC = (Last.pre.PC + 1) % 65536
        /\ A = Last.pre.A /\ X = Last.pre.X /\ Y = Last.pre.Y
        /\ SP = Last.pre.SP /\ P = Last.pre.P
        /\ data = Last.pre.data

\* an unknown opcode has been executed at the last address, with registers that are
\* not zero
C7_Witness ==
    /\ Returned("step")
    /\ Last.opcode \notin LegalOpcodes
    /\ Last.pre.PC = \hFFFF
    /\ PC = 0
    /\ A # 0 /\ X # 0 /\ Y # 0 /\ P # \h24

(***************************************************************************)
(* Properties of the stack.                                                *)
(***************************************************************************)
\* the record of the operation before the last
Previous == hist[Len(hist) - 1]

\* record h is a step that made exactly one stack access, of kind op
SingleAccess(h, op) == h.op = "step" /\ Len(h.stack) = 1 /\ h.stack[1].op = op

\* C8: for every SP s in 0..255, 0x00 and 0xFF included, one push followed by one
\* pop leaves SP = s again, and the byte popped is the byte pushed.
C8_PushThenPop ==
    (Len(hist) >= 2 /\ SingleAccess(Previous, "push") /\ SingleAccess(Last, "pop")) =>
        /\ SP = Previous.pre.SP
        /\ Last.stack[1].value = Previous.stack[1].value

\* a push at SP = 0x00, which wraps to 0xFF, then a pop, which wraps back; the
\* byte pushed differs from the byte that cell held
C8_Witness ==
    /\ Len(hist) >= 2
    /\ SingleAccess(Previous, "push")
    /\ SingleAccess(Last, "pop")
    /\ Previous.pre.SP = \h00
    /\ Last.pre.SP = \hFF
    /\ Previous.stack[1].value # Cell(Previous.pre.data, Previous.stack[1].addr)

\* the instructions that push or pop
StackOpcodes ==
    {INS.PHA, INS.PHP, INS.PLA, INS.PLP, INS.JSR, INS.RTS, INS.RTI, INS.BRK}

\* SP after each of the stack accesses of log in turn, from sp on: a push
\* decrements it, a pop increments it, both mod 256
StackPointerAfter(sp, log) ==
    LET F[i \in 0..Len(log)] ==
            IF i = 0 THEN sp
            ELSE IF log[i].op = "push" THEN (F[i - 1] + 255) % 256
                 ELSE (F[i - 1] + 1) % 256
    IN  F

\* the i-th stack access of step h obeys the discipline: page 1, a push at
\* 0x0100 + SP before the decrement, a pop at 0x0100 + SP after the increment
StackAccessInPage(h, i) ==
    /\ h.stack[i].addr \in \h0100..\h01FF
    /\ h.stack[i].op = "push" =>
           h.stack[i].addr = \h0100 + StackPointerAfter(h.pre.SP, h.stack)[i - 1]
    /\ h.stack[i].op = "pop" =>
           /\ h.stack[i].addr = \h0100 + StackPointerAfter(h.pre.SP, h.stack)[i]
           /\ h.stack[i].value = Cell(h.pre.data, h.stack[i].addr)

\* C9: every memory access of a push or pop (PHA, PHP, PLA, PLP, JSR, RTS, RTI, BRK)
\* is to an address in 0x0100..0x01FF, for every SP and after any instructions: a
\* push writes 0x0100 + SP and then decrements SP mod 256, a pop increments SP
\* mod 256 and then reads 0x0100 + SP.
C9_StackInPageOne ==
    Returned("step") =>
        /\ \A i \in 1..Len(Last.stack) : StackAccessInPage(Last, i)
        /\ Last.opcode \in StackOpcodes =>
               /\ Len(Last.stack) > 0
               /\ SP = StackPointerAfter(Last.pre.SP, Last.stack)[Len(Last.stack)]
               /\ \A i \in 1..Len(Last.stack) :
                      Last.stack[i].op = "push" =>
                          Cell(data, Last.stack[i].addr) = Last.stack[i].value
        /\ Last.opcode \notin StackOpcodes => Last.stack = <<>>

\* BRK at SP = 0x01: its three pushes go to 0x0101, 0x0100 and, wrapped, 0x01FF
C9_Witness ==
    /\ Returned("step")
    /\ Last.opcode = INS.BRK
    /\ Last.pre.SP = \h01
    /\ Len(Last.stack) = 3
    /\ Last.stack[1].addr = \h0101
    /\ Last.stack[2].addr = \h0100
    /\ Last.stack[3].addr = \h01FF
    /\ SP = \hFE

\* step j of the history made no stack access and left SP and memory alone
OffStack(j) ==
    /\ hist[j].op = "step"
    /\ hist[j].stack = <<>>
    /\ hist[j + 1].pre.SP = hist[j].pre.SP
    /\ hist[j + 1].pre.data = hist[j].pre.data

\* step i executed PHA, the last one PLA, and nothing in between touched the stack
PushedThenPulled(i) ==
    /\ hist[i].op = "step"
    /\ hist[i].opcode = INS.PHA
    /\ Returned("step")
    /\ Last.opcode = INS.PLA
    /\ hist[i + 1].pre.SP = (hist[i].pre.SP + 255) % 256
    /\ \A j \in (i + 1)..(Len(hist) - 1) : OffStack(j)

\* C10: for every A and SP, PHA then PLA (A possibly changed in between) leaves A
\* equal to the value pushed, SP as it was before PHA, Z = (A = 0) and N = bit 7 of A.
C10_PhaThenPla ==
    \A i \in 1..(Len(hist) - 1) :
        PushedThenPulled(i) =>
            /\ A = hist[i].pre.A
            /\ SP = hist[i].pre.SP
            /\ (BitAnd(P, FLAG_ZERO) # 0) <=> (A = 0)
            /\ (BitAnd(P, FLAG_NEGATIVE) # 0) <=> (A >= 128)

\* PHA of 0x80 at SP = 0x00, A then loaded with another value, PLA
C10_Witness ==
    /\ Len(hist) = 3
    /\ PushedThenPulled(1)
    /\ hist[1].pre.SP = \h00
    /\ hist[1].pre.A = \h80
    /\ Last.pre.A = \h00
    /\ A = \h80

(***************************************************************************)
(* PHP and PLP, for every status byte and every stack pointer.             *)
(***************************************************************************)
\* the status bytes a CPU that has been reset can hold: bit 5 is set
StatusBytes == {p \in 0..255 : BitAnd(p, FLAG_UNUSED) # 0}

InitStatus ==
    \E p \in StatusBytes, sp \in StackPointers :
        Running([A |-> \h5A, X |-> \h00, Y |-> \h00, SP |-> sp, P |-> p], ORG,
                StackImage(<<INS.PHP, INS.PLP>>))

SpecStatus == InitStatus /\ [][NextStep]_vars

\* the last two operations were steps executing the opcodes first and second
StepPair(first, second) ==
    /\ Len(hist) >= 2
    /\ Previous.op = "step" /\ Previous.opcode = first
    /\ Last.op = "step" /\ Last.opcode = second

Started(S) == \E c \in S : Running(c, c.PC, c.data)

\* a JSR at a to T and an RTS at T; a + 3 wraps, or the operand straddles a page
CallScenarios ==
    { [A |-> \h11, X |-> \h22, Y |-> \h33, SP |-> sp, P |-> \h24, PC |-> a,
       data |-> LoadAll(<< <<VECTOR_RESET, Bytes(a)>>,
                           <<STACK_BASE, <<\hAA, \hBB>> >>,
                           <<STACK_BASE + 254, <<\hCC, \hDD>> >>,
                           <<T, <<INS.RTS>> >>,
                           <<a, <<INS.JSR>> \o Bytes(T)>> >>)] :
      sp \in StackPointers, a \in {ORG, \h20FE, \hFFFD}, T \in {\h3000, \h40FF, \h0080} }

SpecCalls == Started(CallScenarios) /\ [][NextStep]_vars

\* C12: for every JSR at address a with target T and every SP, also where the two
\* pushes wrap SP, JSR followed by the RTS at T sets PC to a + 3 (mod 65536) and
\* returns SP to its value before the JSR.
C12_JsrThenRts ==
    StepPair(INS.JSR, INS.RTS) =>
        /\ Last.pre.PC = WordAt(Previous.pre.data, (Previous.pre.PC + 1) % 65536)
        /\ PC = (Previous.pre.PC + 3) % 65536
        /\ SP = Previous.pre.SP

\* a JSR at 0xFFFD with SP = 0x00: the return address wraps to 0x0000 and the two
\* pushes go to 0x0100 and 0x01FF
C12_Witness ==
    /\ StepPair(INS.JSR, INS.RTS)
    /\ Previous.pre.PC = \hFFFD
    /\ Previous.pre.SP = \h00
    /\ Last.pre.SP = \hFE
    /\ PC = \h0000
    /\ SP = \h00

(***************************************************************************)
(* Shifting the accumulator left and rotating it back.                     *)
(***************************************************************************)
\* ASL A, ROR A and ROL A, ROR A at ORG, for every accumulator value, carry clear
\* or set
ShiftScenarios ==
    { [A |-> a, X |-> \h00, Y |-> \h00, SP |-> \hFD, P |-> p, PC |-> ORG,
       data |-> Image(ORG, <<first, INS.ROR_ACC>>, \h00)] :
      first \in {INS.ASL_ACC, INS.ROL_ACC}, a \in 0..255,
      p \in {\h24, \hE6, \h25, \hA5} }

SpecShift == Started(ShiftScenarios) /\ [][NextStep]_vars

\* C13: for every accumulator value v whose bit 7 is 0, with carry clear before
\* ASL, ASL A then ROR A leaves A equal to v.
C13_AslThenRor ==
    (/\ StepPair(INS.ASL_ACC, INS.ROR_ACC)
     /\ Previous.pre.A < 128
     /\ BitAnd(Previous.pre.P, \h01) = 0) =>
        A = Previous.pre.A

\* v = 0x7F with carry clear: ASL A gives 0xFE, ROR A gives 0x7F back
C13_Witness ==
    /\ StepPair(INS.ASL_ACC, INS.ROR_ACC)
    /\ Previous.pre.A = \h7F
    /\ BitAnd(Previous.pre.P, \h01) = 0
    /\ Last.pre.A = \hFE
    /\ A = \h7F

(***************************************************************************)
(* Jumps through a pointer.                                                *)
(***************************************************************************)
\* JMP (ptr) at ORG; lo at ptr, next at ptr + 1, same at the start of ptr's page
JumpScenarios ==
    { [A |-> \h00, X |-> \h00, Y |-> \h00, SP |-> \hFD, P |-> \h24, PC |-> ORG,
       data |-> LoadAll(<< <<VECTOR_RESET, Bytes(ORG)>>,
                           <<ORG, <<INS.JMP_IND>> \o Bytes(ptr)>>,
                           <<BitAnd(ptr, \hFF00), <<same>> >>,
                           <<ptr + 1, <<next>> >>,
                           <<ptr, <<lo>> >> >>)] :
      ptr \in {\h20FF, \h2000, \h20FE, \h2001, \h00FF, \hFFFF, \h3080},
      lo \in {\h00, \h34, \hFF}, same \in {\h00, \h12, \h80}, next \in {\h00, \h56, \hFF} }

SpecJump == Started(JumpScenarios) /\ [][NextStep]_vars

\* the operand of the instruction step h executed, as a 16-bit pointer
OperandWord(h) == WordAt(h.pre.data, (h.pre.PC + 1) % 65536)

\* C14: for indirect JMP with operand pointer p: if the low byte of p is 0xFF the
\* new PC is mem[p] | (mem[p AND 0xFF00] << 8), the high byte coming from the start
\* of the same page; otherwise it is mem[p] | (mem[p + 1] << 8).
C14_JmpIndirect ==
    (Returned("step") /\ Last.opcode = INS.JMP_IND) =>
        IF OperandWord(Last) % 256 = 255
        THEN PC = Cell(Last.pre.data, OperandWord(Last))
                  + 256 * Cell(Last.pre.data, OperandWord(Last) - 255)
        ELSE PC = Cell(Last.pre.data, OperandWord(Last))
                  + 256 * Cell(Last.pre.data, OperandWord(Last) + 1)

\* JMP ($20FF) where $2000 and $2100 hold different bytes: PC takes $2000's
C14_Witness ==
    /\ Returned("step")
    /\ Last.opcode = INS.JMP_IND
    /\ OperandWord(Last) = \h20FF
    /\ Cell(Last.pre.data, \h2000) = \h12
    /\ Cell(Last.pre.data, \h2100) = \h56
    /\ PC = \h1234

(***************************************************************************)
(* Conditional branches.                                                   *)
(***************************************************************************)
BranchOpcodes ==
    {INS.BCC, INS.BCS, INS.BEQ, INS.BMI, INS.BNE, INS.BPL, INS.BVC, INS.BVS}

\* a branch at the start, the end and across the end of a page, and at the last
\* two addresses; offsets forward and backward; every tested flag clear or set
BranchScenarios ==
    { [A |-> \h00, X |-> \h00, Y |-> \h00, SP |-> \hFD, P |-> p, PC |-> a,
       data |-> LoadAll(<< <<VECTOR_RESET, Bytes(a)>>, <<a, <<opcode, offset>> >> >>)] :
      opcode \in BranchOpcodes, p \in {\h24, \hE7, \hA5, \h66},
      offset \in {\h00, \h10, \h7F, \h80, \hF0, \hFE, \hFF},
      a \in {ORG, \h10FD, \h10FE, \hFFFE} }

SpecBranch == Started(BranchScenarios) /\ [][NextStep]_vars

\* whether the branch opcode branches when the status byte is p
BranchTaken(opcode, p) ==
    CASE opcode = INS.BCC -> BitAnd(p, \h01) = 0
      [] opcode = INS.BCS -> BitAnd(p, \h01) # 0
      [] opcode = INS.BNE -> BitAnd(p, \h02) = 0
      [] opcode = INS.BEQ -> BitAnd(p, \h02) # 0
      [] opcode = INS.BVC -> BitAnd(p, \h40) = 0
      [] opcode = INS.BVS -> BitAnd(p, \h40) # 0
      [] opcode = INS.BPL -> BitAnd(p, \h80) = 0
      [] opcode = INS.BMI -> BitAnd(p, \h80) # 0

\* the address of the instruction after the two-byte instruction step h executed
FollowingAddress(h) == (h.pre.PC + 2) % 65536

\* the operand byte of the instruction step h executed
OperandByte(h) == Cell(h.pre.data, (h.pre.PC + 1) % 65536)

\* where the branch step h executed leads when taken: the following address plus
\* the operand as a two's complement offset, mod 65536
BranchTarget(h) ==
    (FollowingAddress(h) + OperandByte(h)
        + (IF OperandByte(h) >= 128 THEN 65536 - 256 ELSE 0)) % 65536

\* C15: each of the eight branch opcodes costs 2 when its condition is false, 3 when
\* the branch is taken and the target has the same high byte as the address of the
\* following instruction, and 4 when taken and the high bytes differ.
C15_BranchCost ==
    (Returned("step") /\ Last.opcode \in BranchOpcodes) =>
        Last.ret = IF ~BranchTaken(Last.opcode, Last.pre.P) THEN 2
                   ELSE IF BranchTarget(Last) \div 256 = FollowingAddress(Last) \div 256
                        THEN 3
                        ELSE 4

\* BNE at 0x10FD with Z clear and offset +0x10: from 0x10FF to 0x110F, 4 cycles
C15_Witness ==
    /\ Returned("step")
    /\ Last.opcode = INS.BNE
    /\ Last.pre.PC = \h10FD
    /\ OperandByte(Last) = \h10
    /\ BranchTaken(Last.opcode, Last.pre.P)
    /\ Last.ret = 4
    /\ PC = \h110F

(***************************************************************************)
(* Indexed addressing: abs,X, abs,Y and (ind),Y.                           *)
(***************************************************************************)
\* the instructions that only read their operand, in the three indexed modes
ReadIndexedOpcodes ==
    {INS.LDA_ABSX, INS.LDA_ABSY, INS.LDA_INDY, INS.LDX_ABSY, INS.LDY_ABSX,
     INS.AND_ABSX, INS.AND_ABSY, INS.AND_INDY, INS.ORA_ABSX, INS.ORA_ABSY, INS.ORA_INDY,
     INS.EOR_ABSX, INS.EOR_ABSY, INS.EOR_INDY, INS.ADC_ABSX, INS.ADC_ABSY, INS.ADC_INDY,
     INS.SBC_ABSX, INS.SBC_ABSY, INS.SBC_INDY, INS.CMP_ABSX, INS.CMP_ABSY, INS.CMP_INDY}

\* the instructions that write or read-modify-write theirs
WriteIndexedOpcodes ==
    {INS.STA_ABSX, INS.STA_ABSY, INS.STA_INDY, INS.INC_ABSX, INS.DEC_ABSX,
     INS.ASL_ABSX, INS.LSR_ABSX, INS.ROL_ABSX, INS.ROR_ABSX}

\* of these, the ones in (ind),Y mode and the ones indexed by Y
IndirectYOpcodes ==
    {INS.LDA_INDY, INS.AND_INDY, INS.ORA_INDY, INS.EOR_INDY, INS.ADC_INDY,
     INS.SBC_INDY, INS.CMP_INDY, INS.STA_INDY}

IndexedByYOpcodes ==
    IndirectYOpcodes \cup
    {INS.LDA_ABSY, INS.LDX_ABSY, INS.AND_ABSY, INS.ORA_ABSY, INS.EOR_ABSY,
     INS.ADC_ABSY, INS.SBC_ABSY, INS.CMP_ABSY, INS.STA_ABSY}

\* Each indexed instruction twice in a row with two bases and one index; STA abs,X
\* with every X; and LDA abs,X at 0x1080 with X = 0x10, then at 0x10F0 with X = 0x20.
\* The bases have distinct low bytes, and the zero-page word at the low byte of each
\* (wrapping from 0xFF to 0x00) holds it, for (ind),Y mode.
IndexedScenarios ==
    LET BaseAddresses == {\h1080, \h10F0, \h20FF, \hFFE0, \h3040}
        Pointers == << <<\h80, Bytes(\h1080)>>, <<\hF0, Bytes(\h10F0)>>,
                       <<\hFF, <<\hFF>> >>, <<\h00, <<\h20>> >>,
                       <<\hE0, Bytes(\hFFE0)>>, <<\h40, Bytes(\h3040)>> >>
        Instruction(opcode, base) ==
            IF opcode \in IndirectYOpcodes THEN <<opcode, base % 256>>
            ELSE <<opcode>> \o Bytes(base)
        IndexedCPU(index, p, prog) ==
            [A |-> \h5A, X |-> index, Y |-> index, SP |-> \hFD, P |-> p, PC |-> ORG,
             data |-> LoadAll(Pointers \o << <<VECTOR_RESET, Bytes(ORG)>>,
                                             <<ORG, prog>> >>)]
    IN  { IndexedCPU(index, \h24, Instruction(opcode, b1) \o Instruction(opcode, b2)) :
            opcode \in ReadIndexedOpcodes \cup WriteIndexedOpcodes,
            b1 \in BaseAddresses, b2 \in BaseAddresses,
            index \in {\h00, \h01, \h10, \h20, \hFF} }
        \cup
        { IndexedCPU(index, p, Instruction(INS.STA_ABSX, b1)) :
            index \in 0..255, b1 \in BaseAddresses, p \in {\h24, \h2D} }
        \cup
        { IndexedCPU(\h10, p, <<INS.LDA_ABSX, \h80, \h10, INS.LDX_IM, \h20,
                                INS.LDA_ABSX, \hF0, \h10>>) : p \in {\h24, \h2D} }

SpecIndexed == Started(IndexedScenarios) /\ [][NextStep]_vars

\* the base address the indexed instruction of step h adds its index to: the operand
\* word, or in (ind),Y mode the zero-page word the operand byte points at
IndexedBase(h) ==
    IF h.opcode \in IndirectYOpcodes
    THEN Cell(h.pre.data, OperandByte(h))
         + 256 * Cell(h.pre.data, (OperandByte(h) + 1) % 256)
    ELSE OperandWord(h)

\* the index register it adds
IndexOf(h) == IF h.opcode \in IndexedByYOpcodes THEN h.pre.Y ELSE h.pre.X

\* 1 when the high byte of base + index differs from the high byte of base, else 0
CrossesPage(h) ==
    IF ((IndexedBase(h) + IndexOf(h)) % 65536) \div 256 # IndexedBase(h) \div 256
    THEN 1 ELSE 0

\* steps i and j of the history executed the same opcode, one of S
SameOpcode(i, j, S) ==
    /\ hist[i].op = "step" /\ hist[j].op = "step"
    /\ hist[i].opcode = hist[j].opcode
    /\ hist[i].opcode \in S

\* C16: a read instruction (loads, AND/ORA/EOR, ADC/SBC, CMP) in abs,X, abs,Y or
\* (ind),Y mode costs exactly one more cycle when the high byte of base + index
\* differs from that of base than when it does not; LDA abs,X costs 4 with base
\* 0x1080, X = 0x10 and 5 with base 0x10F0, X = 0x20.
C16_ReadPageCrossCost ==
    /\ \A i, j \in 1..Len(hist) :
           SameOpcode(i, j, ReadIndexedOpcodes) =>
               hist[i].ret - CrossesPage(hist[i]) = hist[j].ret - CrossesPage(hist[j])
    /\ (Returned("step") /\ Last.opcode = INS.LDA_ABSX) =>
           /\ (OperandWord(Last) = \h1080 /\ Last.pre.X = \h10) => Last.ret = 4
           /\ (OperandWord(Last) = \h10F0 /\ Last.pre.X = \h20) => Last.ret = 5

\* LDA $1080,X with X = 0x10 cost 4, and after LDX #$20, LDA $10F0,X cost 5
C16_Witness ==
    /\ Len(hist) = 3
    /\ SameOpcode(1, 3, {INS.LDA_ABSX})
    /\ OperandWord(hist[1]) = \h1080 /\ hist[1].pre.X = \h10 /\ hist[1].ret = 4
    /\ OperandWord(hist[3]) = \h10F0 /\ hist[3].pre.X = \h20 /\ hist[3].ret = 5
    /\ CrossesPage(hist[1]) = 0
    /\ CrossesPage(hist[3]) = 1

\* C17: STA abs,X costs 5 for every base address and every X, whether or not
\* base + X crosses a page.
C17_StaAbsXCost ==
    (Returned("step") /\ Last.opcode = INS.STA_ABSX) => Last.ret = 5

\* C18: for STA abs,X / abs,Y / (ind),Y and for INC, DEC, ASL, LSR, ROL, ROR in
\* abs,X mode, the cost of a given opcode is the same for every base and index,
\* whether or not the indexed address crosses a page.
C18_WritePageCrossCost ==
    \A i, j \in 1..Len(hist) :
        SameOpcode(i, j, WriteIndexedOpcodes) => hist[i].ret = hist[j].ret

\* STA ($80),Y without a page cross, then STA ($FF),Y with one, at the same cost
C18_Witness ==
    /\ Len(hist) = 2
    /\ SameOpcode(1, 2, {INS.STA_INDY})
    /\ CrossesPage(hist[1]) = 0
    /\ CrossesPage(hist[2]) = 1
    /\ hist[1].ret = hist[2].ret

(***************************************************************************)
(* Zero-page indexed addressing.                                           *)
(***************************************************************************)
ZeroPageXOpcodes ==
    {INS.LDA_ZPX, INS.LDY_ZPX, INS.STA_ZPX, INS.STY_ZPX, INS.AND_ZPX, INS.ORA_ZPX,
     INS.EOR_ZPX, INS.ADC_ZPX, INS.SBC_ZPX, INS.CMP_ZPX, INS.INC_ZPX, INS.DEC_ZPX,
     INS.ASL_ZPX, INS.LSR_ZPX, INS.ROL_ZPX, INS.ROR_ZPX}

ZeroPageYOpcodes == {INS.LDX_ZPY, INS.STX_ZPY}

\* LDA b,X then LDX b,Y for every operand byte b and every index in X and Y, and
\* every other zero-page indexed opcode at some b and index.  The byte at
\* (b + index) mod 256 is 0x77, the byte 0x100 above it 0x99.
ZeroPageScenarios ==
    LET ZeroPageCPU(b, index, prog) ==
            [A |-> \h5A, X |-> index, Y |-> index, SP |-> \hFD, P |-> \h24, PC |-> ORG,
             data |-> LoadAll(<< <<VECTOR_RESET, Bytes(ORG)>>,
                                 <<(b + index) % 256, <<\h77>> >>,
                                 <<\h0100 + ((b + index) % 256), <<\h99>> >>,
                                 <<ORG, prog>> >>)]
    IN  { ZeroPageCPU(b, index, <<INS.LDA_ZPX, b, INS.LDX_ZPY, b>>) :
            b \in 0..255, index \in 0..255 }
        \cup
        { ZeroPageCPU(b, index, <<opcode, b>>) :
            opcode \in ZeroPageXOpcodes \cup ZeroPageYOpcodes,
            b \in {\h00, \h80, \hFF}, index \in {\h00, \h01, \h80, \hFF} }

SpecZeroPage == Started(ZeroPageScenarios) /\ [][NextStep]_vars

\* the index register the zero-page indexed instruction of step h adds
ZeroPageIndex(h) == IF h.opcode \in ZeroPageYOpcodes THEN h.pre.Y ELSE h.pre.X

\* C19: for every zero-page operand byte b and every index i (X or Y) in 0..255, the
\* effective address of zero-page,X and zero-page,Y addressing is (b + i) mod 256:
\* the access never leaves page 0.
C19_ZeroPageWrap ==
    (Returned("step") /\ Last.opcode \in ZeroPageXOpcodes \cup ZeroPageYOpcodes) =>
        /\ Len(Last.log) >= 3
        /\ \A k \in 3..Len(Last.log) :
               /\ Last.log[k].addr = (OperandByte(Last) + ZeroPageIndex(Last)) % 256
               /\ Last.log[k].addr < 256
        /\ \A address \in DOMAIN Last.pre.data \cup DOMAIN data :
               address >= 256 => Cell(data, address) = Cell(Last.pre.data, address)

\* LDX $FF,Y with Y = 0xFF reads 0x00FE, not 0x01FE
C19_Witness ==
    /\ Returned("step")
    /\ Last.opcode = INS.LDX_ZPY
    /\ OperandByte(Last) = \hFF
    /\ Last.pre.Y = \hFF
    /\ Last.log[3] = [op |-> "R", addr |-> \hFE]
    /\ X = \h77
    /\ Cell(data, \h01FE) = \h99

(***************************************************************************)
(* The Zero and Negative flags.                                            *)
(***************************************************************************)
\* the instructions that set Z and N from the value they leave in A
AccumulatorResultOpcodes ==
    {INS.LDA_IM, INS.LDA_ZP, INS.LDA_ZPX, INS.LDA_ABS, INS.LDA_ABSX, INS.LDA_ABSY,
     INS.LDA_INDX, INS.LDA_INDY, INS.AND_IM, INS.AND_ZP, INS.AND_ZPX, INS.AND_ABS,
     INS.AND_ABSX, INS.AND_ABSY, INS.AND_INDX, INS.AND_INDY, INS.ORA_IM, INS.ORA_ZP,
     INS.ORA_ZPX, INS.ORA_ABS, INS.ORA_ABSX, INS.ORA_ABSY, INS.ORA_INDX, INS.ORA_INDY,
     INS.EOR_IM, INS.EOR_ZP, INS.EOR_ZPX, INS.EOR_ABS, INS.EOR_ABSX, INS.EOR_ABSY,
     INS.EOR_INDX, INS.EOR_INDY, INS.TXA, INS.TYA, INS.PLA, INS.ASL_ACC, INS.LSR_ACC,
     INS.ROL_ACC, INS.ROR_ACC}

\* ADC and SBC, which do so in binary mode
ArithmeticOpcodes ==
    {INS.ADC_IM, INS.ADC_ZP, INS.ADC_ZPX, INS.ADC_ABS, INS.ADC_ABSX, INS.ADC_ABSY,
     INS.ADC_INDX, INS.ADC_INDY, INS.SBC_IM, INS.SBC_ZP, INS.SBC_ZPX, INS.SBC_ABS,
     INS.SBC_ABSX, INS.SBC_ABSY, INS.SBC_INDX, INS.SBC_INDY}

\* from the value they leave in X
XResultOpcodes ==
    {INS.LDX_IM, INS.LDX_ZP, INS.LDX_ZPY, INS.LDX_ABS, INS.LDX_ABSY, INS.TAX, INS.TSX,
     INS.INX, INS.DEX}

\* from the value they leave in Y
YResultOpcodes ==
    {INS.LDY_IM, INS.LDY_ZP, INS.LDY_ZPX, INS.LDY_ABS, INS.LDY_ABSX, INS.TAY, INS.INY,
     INS.DEY}

\* from the byte they write to memory
MemoryResultOpcodes ==
    {INS.INC_ZP, INS.INC_ZPX, INS.INC_ABS, INS.INC_ABSX, INS.DEC_ZP, INS.DEC_ZPX,
     INS.DEC_ABS, INS.DEC_ABSX, INS.ASL_ZP, INS.ASL_ZPX, INS.ASL_ABS, INS.ASL_ABSX,
     INS.LSR_ZP, INS.LSR_ZPX, INS.LSR_ABS, INS.LSR_ABSX, INS.ROL_ZP, INS.ROL_ZPX,
     INS.ROL_ABS, INS.ROL_ABSX, INS.ROR_ZP, INS.ROR_ZPX, INS.ROR_ABS, INS.ROR_ABSX}

\* Each of these opcodes with operand bytes <<m, 0x00>>, index registers and SP at
\* index, and the byte m in every cell its addressing mode can reach: the zero-page
\* cells at m and m + index and after them (which also serve as pointers to m * 257),
\* the cells at m * 257 and m * 257 + index, and the stack cells PLA pops.
FlagScenarios ==
    { [A |-> a, X |-> index, Y |-> index, SP |-> index, P |-> p, PC |-> ORG,
       data |-> LoadAll(<< <<VECTOR_RESET, Bytes(ORG)>>,
                           <<STACK_BASE, <<m, m, m>> >>,
                           <<m, <<m, m>> >>,
                           <<(m + index) % 256, <<m>> >>,
                           <<(m + index + 1) % 256, <<m>> >>,
                           <<m + index, <<m>> >>,
                           <<m * 257, <<m>> >>,
                           <<m * 257 + index, <<m>> >>,
                           <<ORG, <<opcode, m, \h00>> >> >>)] :
      opcode \in AccumulatorResultOpcodes \cup ArithmeticOpcodes \cup XResultOpcodes
                 \cup YResultOpcodes \cup MemoryResultOpcodes,
      m \in {\h00, \h01, \h55, \h7F, \h80, \hFF},
      a \in {\h00, \h01, \h80, \hFF},
      index \in {\h00, \h01, \hFF},
      p \in {\h24, \hA6, \h25, \h2C} }

SpecFlags == Started(FlagScenarios) /\ [][NextStep]_vars

\* the value the instruction of the last step wrote to its destination
ResultValue ==
    IF Last.opcode \in XResultOpcodes THEN X
    ELSE IF Last.opcode \in YResultOpcodes THEN Y
    ELSE IF Last.opcode \in MemoryResultOpcodes
         THEN Cell(data, Last.log[Len(Last.log)].addr)
         ELSE A

\* the last step executed an instruction that sets Z and N from its result; for ADC
\* and SBC, with the Decimal flag clear
SetsZeroAndNegative ==
    /\ Returned("step")
    /\ \/ Last.opcode \in AccumulatorResultOpcodes \cup XResultOpcodes
                          \cup YResultOpcodes \cup MemoryResultOpcodes
       \/ Last.opcode \in ArithmeticOpcodes /\ BitAnd(Last.pre.P, \h08) = 0

\* C20: after LDA/LDX/LDY, TAX/TAY/TXA/TYA/TSX, PLA, AND/ORA/EOR, INX/INY/DEX/DEY,
\* INC/DEC, ASL/LSR/ROL/ROR and binary-mode ADC/SBC, Z = (v = 0) and N = (bit 7 of v),
\* v being the 8-bit value the instruction wrote to its register or memory byte.
C20_ZeroNegativeFromResult ==
    SetsZeroAndNegative =>
        /\ (BitAnd(P, \h02) # 0) <=> (ResultValue = 0)
        /\ (BitAnd(P, \h80) # 0) <=> (ResultValue >= 128)
        /\ Last.opcode \in MemoryResultOpcodes =>
               Last.log[Len(Last.log)].op = "W"

\* INC $FF with N and Z set and 0xFF in the cell: it becomes 0x00, Z stays, N clears
C20_Witness ==
    /\ SetsZeroAndNegative
    /\ Last.opcode = INS.INC_ZP
    /\ Last.pre.P = \hA6
    /\ Cell(Last.pre.data, \hFF) = \hFF
    /\ Cell(data, \hFF) = \h00
    /\ ResultValue = 0
    /\ P = \h26

(***************************************************************************)
(* Binary arithmetic, for every accumulator, operand and carry.            *)
(***************************************************************************)
\* ADC #m or SBC #m for every accumulator a and operand m of bytes and every carry
\* c, with the flags of mode (none, or Decimal) set and N, V and Z stale (set) when a
\* is odd; and the signed overflow example CLC, LDA #$50, ADC #$50 entered with the
\* carry set
ArithmeticScenarios(bytes, mode) ==
    { [A |-> a, X |-> \h00, Y |-> \h00, SP |-> STACK_POINTER_RESET,
       P |-> FLAG_UNUSED + mode + c + (IF a % 2 = 1 THEN \hC2 ELSE 0), PC |-> ORG,
       data |-> LoadAll(<< <<VECTOR_RESET, Bytes(ORG)>>,
                           <<ORG, <<opcode, m, INS.NOP, INS.NOP, INS.NOP>> >> >>)] :
      opcode \in {INS.ADC_IM, INS.SBC_IM}, a \in bytes, m \in bytes, c \in {0, 1} }
    \cup
    { [A |-> \h00, X |-> \h00, Y |-> \h00, SP |-> STACK_POINTER_RESET,
       P |-> FLAG_UNUSED + mode + FLAG_CARRY, PC |-> ORG,
       data |-> LoadAll(<< <<VECTOR_RESET, Bytes(ORG)>>,
                           <<ORG, <<INS.CLC, INS.LDA_IM, \h50,
                                    INS.ADC_IM, \h50>> >> >>)] }

SpecBinary == Started(ArithmeticScenarios(0..255, 0)) /\ [][NextStep]_vars

\* the ADC opcodes, and the SBC opcodes, in every addressing mode
AddOpcodes ==
    {INS.ADC_IM, INS.ADC_ZP, INS.ADC_ZPX, INS.ADC_ABS, INS.ADC_ABSX, INS.ADC_ABSY,
     INS.ADC_INDX, INS.ADC_INDY}

SubtractOpcodes == ArithmeticOpcodes \ AddOpcodes

\* the operand of step h: the byte its last memory read returned
OperandRead(h) == Cell(h.pre.data, h.log[Len(h.log)].addr)

\* byte b read as a two's complement number
Signed(b) == IF b >= 128 THEN b - 256 ELSE b

\* the last step executed opcode set S from a state whose Decimal flag was d
Arithmetic(S, d) ==
    /\ Returned("step")
    /\ Last.opcode \in S
    /\ (BitAnd(Last.pre.P, FLAG_DECIMAL) # 0) = d

\* the accumulator and the flags C, V, Z and N are those of the binary sum a + m + c
BinarySum(a, m, c) ==
    /\ A = (a + m + c) % 256
    /\ (BitAnd(P, FLAG_CARRY) # 0) <=> (a + m + c > 255)
    /\ (BitAnd(P, FLAG_OVERFLOW) # 0) <=>
           (BitAnd(BitAnd(BitXor(a, (a + m + c) % 256),
                          BitXor(m, (a + m + c) % 256)), \h80) # 0)
    /\ (BitAnd(P, FLAG_OVERFLOW) # 0) <=>
           (Signed(a) + Signed(m) + c \notin -128..127)
    /\ (BitAnd(P, FLAG_ZERO) # 0) <=> ((a + m + c) % 256 = 0)
    /\ (BitAnd(P, FLAG_NEGATIVE) # 0) <=> ((a + m + c) % 256 >= 128)

\* C21: with the Decimal flag clear, ADC with accumulator A, operand M and carry-in c
\* sets A to (A + M + c) mod 256, C to (A + M + c > 255), V to
\* ((A ^ r) & (M ^ r) & 0x80) # 0 for the old A and the result r (signed overflow),
\* and Z and N from the new A; CLC, LDA #$50, ADC #$50 gives A = 0xA0, N = 1, V = 1,
\* C = 0, Z = 0.
C21_BinaryAdc ==
    Arithmetic(AddOpcodes, FALSE) =>
        BinarySum(Last.pre.A, OperandRead(Last), Last.pre.P % 2)

\* the example: after CLC, LDA #$50 and ADC #$50, A = 0xA0 with N and V set
C21_Witness ==
    /\ Arithmetic(AddOpcodes, FALSE)
    /\ Len(hist) = 3
    /\ hist[1].opcode = INS.CLC
    /\ hist[2].opcode = INS.LDA_IM
    /\ Last.pre.A = \h50
    /\ OperandRead(Last) = \h50
    /\ A = \hA0
    /\ P = \hE0

\* the flags C, V, Z and N of status byte p
ArithmeticFlags(p) == BitAnd(p, \hC3)

\* C24: with the Decimal flag clear, SBC with operand M leaves the same A, C, V, Z
\* and N as ADC with operand M XOR 0xFF executed from the same state.
C24_SbcIsAdcOfComplement ==
    Arithmetic(SubtractOpcodes, FALSE) =>
        /\ A = ADC_Binary(Last.pre, BitXor(OperandRead(Last), \hFF)).A
        /\ ArithmeticFlags(P) =
               ArithmeticFlags(ADC_Binary(Last.pre, BitXor(OperandRead(Last), \hFF)).P)

\* 0x00 - 0x01 with the carry clear (a borrow pending): A = 0xFE as 0x00 + 0xFE + 0
C24_Witness ==
    /\ Arithmetic(SubtractOpcodes, FALSE)
    /\ Last.pre.A = \h00
    /\ OperandRead(Last) = \h01
    /\ Last.pre.P = \h20
    /\ A = \hFE
    /\ P = \hA0

(***************************************************************************)
(* Decimal arithmetic, for every pair of valid BCD bytes and carry.        *)
(***************************************************************************)
\* the byte holding the two decimal digits of n, and the number a BCD byte b holds
BCD(n) == 16 * (n \div 10) + (n % 10)

Dec(b) == 10 * (b \div 16) + (b % 16)

\* the bytes whose two nibbles are decimal digits
BCDBytes == { BCD(n) : n \in 0..99 }

\* the same programs entered with the Decimal flag set, for every pair of valid BCD
\* bytes and every carry
SpecDecimal == Started(ArithmeticScenarios(BCDBytes, FLAG_DECIMAL)) /\ [][NextStep]_vars

\* the last step executed an opcode of S in decimal mode on valid BCD bytes
DecimalStep(S) ==
    /\ Arithmetic(S, TRUE)
    /\ Last.pre.A \in BCDBytes
    /\ OperandRead(Last) \in BCDBytes

\* the decimal sum and difference the last step had to compute
DecimalSum == Dec(Last.pre.A) + Dec(OperandRead(Last)) + (Last.pre.P % 2)

DecimalDifference == Dec(Last.pre.A) - Dec(OperandRead(Last)) - (1 - (Last.pre.P % 2))

\* C22: in decimal mode, ADC on two valid BCD bytes A and M with carry-in c leaves
\* A = BCD((dec(A) + dec(M) + c) mod 100); 0x15 + 0x27 with c = 0 gives 0x42.
C22_DecimalAdcResult ==
    DecimalStep(AddOpcodes) => A = BCD(DecimalSum % 100)

\* C23: in decimal mode, ADC on valid BCD bytes sets C exactly when
\* dec(A) + dec(M) + c >= 100.
C23_DecimalAdcCarry ==
    DecimalStep(AddOpcodes) => ((BitAnd(P, FLAG_CARRY) # 0) <=> (DecimalSum >= 100))

\* C25: in decimal mode, SBC on valid BCD bytes with carry-in c leaves
\* A = BCD((dec(A) - dec(M) - (1 - c)) mod 100) and sets C exactly when there was no
\* borrow, that is when dec(A) - dec(M) - (1 - c) >= 0.
C25_DecimalSbc ==
    DecimalStep(SubtractOpcodes) =>
        /\ A = BCD(DecimalDifference % 100)
        /\ (BitAnd(P, FLAG_CARRY) # 0) <=> (DecimalDifference >= 0)

\* 0x99 + 0x01: the sum 100 leaves A = 0x00 with the carry set
C23_Witness ==
    /\ DecimalStep(AddOpcodes)
    /\ Last.pre.A = \h99
    /\ OperandRead(Last) = \h01
    /\ Last.pre.P % 2 = 0
    /\ DecimalSum = 100
    /\ A = \h00
    /\ BitAnd(P, FLAG_CARRY) # 0

\* 0x00 - 0x01 with the carry set: the borrow leaves A = 0x99 with the carry clear
C25_Witness ==
    /\ DecimalStep(SubtractOpcodes)
    /\ Last.pre.A = \h00
    /\ OperandRead(Last) = \h01
    /\ Last.pre.P % 2 = 1
    /\ A = \h99
    /\ BitAnd(P, FLAG_CARRY) = 0

(***************************************************************************)
(* Comparisons, for every value of the compared register.                  *)
(***************************************************************************)
\* CMP, CPX and CPY in every addressing mode
CompareOpcodes ==
    {INS.CMP_IM, INS.CMP_ZP, INS.CMP_ZPX, INS.CMP_ABS, INS.CMP_ABSX, INS.CMP_ABSY,
     INS.CMP_INDX, INS.CMP_INDY, INS.CPX_IM, INS.CPX_ZP, INS.CPX_ABS,
     INS.CPY_IM, INS.CPY_ZP, INS.CPY_ABS}

\* Each compare opcode with operand bytes <<m, 0x00>>, A = r, X = Y = r + 0x55
\* (mod 256) for every r of registers, and the byte m in every cell its addressing
\* mode can reach (as in FlagScenarios), with all the flags but B clear or set
\* beforehand.
CompareScenarios(registers) ==
    { [A |-> r, X |-> (r + \h55) % 256, Y |-> (r + \h55) % 256,
       SP |-> STACK_POINTER_RESET, P |-> p, PC |-> ORG,
       data |-> LoadAll(<< <<VECTOR_RESET, Bytes(ORG)>>,
                           <<m, <<m, m>> >>,
                           <<(m + ((r + \h55) % 256)) % 256, <<m>> >>,
                           <<(m + ((r + \h55) % 256) + 1) % 256, <<m>> >>,
                           <<m + ((r + \h55) % 256), <<m>> >>,
                           <<m * 257, <<m>> >>,
                           <<m * 257 + ((r + \h55) % 256), <<m>> >>,
                           <<ORG, <<opcode, m, \h00>> >> >>)] :
      opcode \in CompareOpcodes,
      r \in registers,
      m \in {\h00, \h01, \h0F, \h10, \h40, \h55, \h7F, \h80, \h81, \hAA, \hFE, \hFF},
      p \in {\h20, \hEF} }

SpecCompare == Started(CompareScenarios(0..255)) /\ [][NextStep]_vars

\* the register step h compared
ComparedRegister(h) ==
    IF h.opcode \in {INS.CPX_IM, INS.CPX_ZP, INS.CPX_ABS} THEN h.pre.X
    ELSE IF h.opcode \in {INS.CPY_IM, INS.CPY_ZP, INS.CPY_ABS} THEN h.pre.Y
    ELSE h.pre.A

\* the last step executed a compare instruction
Compared == Returned("step") /\ Last.opcode \in CompareOpcodes

\* C26: CMP, CPX and CPY with register value r and operand M set C = (r >= M),
\* Z = (r = M) and N = bit 7 of (r - M) mod 256, and leave A, X, Y, SP, the flags V,
\* D and I and all memory unchanged.
C26_Compare ==
    Compared =>
        /\ (BitAnd(P, FLAG_CARRY) # 0) <=> (ComparedRegister(Last) >= OperandRead(Last))
        /\ (BitAnd(P, FLAG_ZERO) # 0) <=> (ComparedRegister(Last) = OperandRead(Last))
        /\ (BitAnd(P, FLAG_NEGATIVE) # 0) <=>
               ((ComparedRegister(Last) - OperandRead(Last)) % 256 >= 128)
        /\ A = Last.pre.A /\ X = Last.pre.X /\ Y = Last.pre.Y /\ SP = Last.pre.SP
        /\ BitAnd(P, FLAG_OVERFLOW + FLAG_DECIMAL + FLAG_INTERRUPT)
               = BitAnd(Last.pre.P, FLAG_OVERFLOW + FLAG_DECIMAL + FLAG_INTERRUPT)
        /\ data = Last.pre.data

\* CPX #$00 with X = 0x80 and every flag set: r >= M and bit 7 of r - M give C = 1,
\* N = 1, and Z clears while V, D and I stay set
C26_Witness ==
    /\ Compared
    /\ Last.opcode = INS.CPX_IM
    /\ Last.pre.X = \h80
    /\ OperandRead(Last) = \h00
    /\ Last.pre.P = \hEF
    /\ P = \hED

(***************************************************************************)
(* Software interrupts, for every stack pointer.                           *)
(***************************************************************************)
\* a BRK at a, its padding byte and a NOP, the IRQ/BRK vector pointing at an RTI at
\* H, and a stack page that is not empty at either end; at a = 0xFFFF the opcode byte
\* is also the high byte of the vector, so H lies in page zero
BreakScenarios(pointers) ==
    { [A |-> \h11, X |-> \h22, Y |-> \h33, SP |-> sp, P |-> p, PC |-> t[1],
       data |-> LoadAll(<< <<VECTOR_RESET, Bytes(t[1])>>,
                           <<VECTOR_IRQ_BRK, Bytes(t[2])>>,
                           <<STACK_BASE, <<\hEE, \hEE, \hEE>> >>,
                           <<STACK_BASE + 253, <<\hEE, \hEE, \hEE>> >>,
                           <<t[2], <<INS.RTI>> >>,
                           <<t[1], <<INS.BRK, \hEA, INS.NOP>> >> >>)] :
      sp \in pointers,
      p \in {\h20, \h24, \hEB, \hFF},
      t \in ({ORG, \h20FE, \h10FF} \X {\h3000, \h40FF, \h0080})
             \cup {<<\hFFFF, \h0080>>} }

SpecBreak == Started(BreakScenarios(StackPointers)) /\ [][NextStep]_vars

\* the last step executed a BRK
Broke == Returned("step") /\ Last.opcode = INS.BRK

\* C27: BRK at address a pushes the word a + 2 (high byte at 0x0100 + SP, low byte
\* one below), then the status byte it had before with B and Unused set, sets I,
\* loads PC from the word at 0xFFFE/0xFFFF and leaves SP lower by 3 (mod 256).
C27_Brk ==
    Broke =>
        /\ Last.stack =
               << [op |-> "push", addr |-> STACK_BASE + Last.pre.SP,
                   value |-> ((Last.pre.PC + 2) % 65536) \div 256],
                  [op |-> "push", addr |-> STACK_BASE + ((Last.pre.SP + 255) % 256),
                   value |-> ((Last.pre.PC + 2) % 65536) % 256],
                  [op |-> "push", addr |-> STACK_BASE + ((Last.pre.SP + 254) % 256),
                   value |-> BitOr(Last.pre.P, FLAG_BREAK + FLAG_UNUSED)] >>
        /\ Cell(data, STACK_BASE + Last.pre.SP) = ((Last.pre.PC + 2) % 65536) \div 256
        /\ Cell(data, STACK_BASE + ((Last.pre.SP + 255) % 256))
               = ((Last.pre.PC + 2) % 65536) % 256
        /\ Cell(data, STACK_BASE + ((Last.pre.SP + 254) % 256))
               = BitOr(Last.pre.P, FLAG_BREAK + FLAG_UNUSED)
        /\ P = BitOr(Last.pre.P, FLAG_INTERRUPT)
        /\ PC = WordAt(Last.pre.data, VECTOR_IRQ_BRK)
        /\ SP = (Last.pre.SP + 253) % 256

\* BRK at 0xFFFF with SP = 0x01 and I clear: the word 0x0001 goes to 0x0101 and
\* 0x0100, the status with B set to 0x01FF, and SP wraps to 0xFE
C27_Witness ==
    /\ Broke
    /\ Last.pre.PC = \hFFFF
    /\ Last.pre.SP = \h01
    /\ Last.pre.P = \hEB
    /\ Cell(data, \h0101) = \h00
    /\ Cell(data, \h0100) = \h01
    /\ Cell(data, \h01FF) = \hFB
    /\ P = \hEF
    /\ PC = \h0080
    /\ SP = \hFE

(***************************************************************************)
(* The loop test: the host steps the CPU until PC reaches the final NOP.   *)
(***************************************************************************)
\* Example_LoopTest's cap on the number of iterations
maxIterations == 50

\* the program LDX #$00; INX; CPX #limit; BNE offset; NOP after cpu.Reset(memory):
\* Example_LoopTest counts to 5 with the offset 0xFA; 0xFB is the offset of the INX
LoopScenarios ==
    { [A |-> \h00, X |-> \h00, Y |-> \h00, SP |-> STACK_POINTER_RESET,
       P |-> FLAG_UNUSED + FLAG_INTERRUPT, PC |-> ORG,
       data |-> LoadAll(<< <<VECTOR_RESET, Bytes(ORG)>>,
                           <<ORG, <<INS.LDX_IM, \h00, INS.INX, INS.CPX_IM, limit,
                                    INS.BNE, offset, INS.NOP>> >> >>)] :
      limit \in 1..5, offset \in {\hFA, \hFB} }

\* while (cpu.PC != 0x1007 && iteration < maxIterations) cpu.Execute(memory)
LoopTestStep ==
    /\ PC # \h1007
    /\ Len(hist) < maxIterations
    /\ ReturnStep(Execute(Entry))
    /\ UNCHANGED reset

SpecLoop == Started(LoopScenarios) /\ [][LoopTestStep]_vars

\* memory holds the loop with the limit 5 and the branch offset
LoopProgram(offset) ==
    /\ Cell(data, \h1004) = \h05
    /\ Cell(data, \h1006) = offset

\* the number of steps so far that executed a BNE
BranchesExecuted == Cardinality({ i \in 1..Len(hist) : hist[i].opcode = INS.BNE })

\* C28: with the program A2 00 E8 E0 05 D0 FA EA at 0x1000, stepping from reset until
\* PC = 0x1007 takes 17 step calls (16 to reach the NOP, the 17th executing it), the
\* BNE being executed 5 times, and ends with X = 0x05 and Z = 1.
C28_LoopExample ==
    LoopProgram(\hFA) =>
        /\ Len(hist) <= 16
        /\ Len(hist) = 16 => PC = \h1007
        /\ PC = \h1007 =>
               /\ Len(hist) = 16
               /\ BranchesExecuted = 5
               /\ X = \h05
               /\ BitAnd(P, FLAG_ZERO) # 0

\* what the claim describes does happen when the branch offset is 0xFB
C28_LoopWithOffsetFB ==
    LoopProgram(\hFB) =>
        /\ Len(hist) <= 16
        /\ Len(hist) = 16 => PC = \h1007
        /\ PC = \h1007 =>
               /\ Len(hist) = 16
               /\ BranchesExecuted = 5
               /\ X = \h05
               /\ BitAnd(P, FLAG_ZERO) # 0

(***************************************************************************)
(* Memory used directly: a host writing and reading words.                 *)
(***************************************************************************)
\* the number of word operations a host performs
MaxWordOps == 2

\* the addresses and the values a host uses, and the counter it supplies
WordAddresses == {\h0000, \h00FF, \h01FF, \h1234, \hFFFE, \hFFFF}

WordValues == {\h0000, \h0001, \h00FF, \h0100, \h1234, \h8000, \hFFFF}

WordCounters == {0, 5}

\* a constructed CPU and a memory that is empty or holds bytes where words will go
InitWords ==
    /\ A = ConstructedCPU.A
    /\ X = ConstructedCPU.X
    /\ Y = ConstructedCPU.Y
    /\ PC = ConstructedCPU.PC
    /\ SP = ConstructedCPU.SP
    /\ P = ConstructedCPU.P
    /\ TotalCycles = ConstructedCPU.TotalCycles
    /\ data \in { EmptyMemory,
                  LoadAll(<< <<\hFFFE, <<\hA1, \hA2, \hA3, \hA4>> >>,
                             <<\h00FF, <<\hB1, \hB2>> >>,
                             <<\h1234, <<\hC1, \hC2>> >> >>) }
    /\ reset = FALSE
    /\ hist = <<>>

\* the history record of a word operation that ended in s with the counter at
\* s.cycles, having started with the counter at counter
WordRecord(op, address, value, counter, s) ==
    [op |-> op, address |-> address, value |-> value, pre |-> Snapshot,
     charged |-> s.cycles - counter, log |-> s.log]

\* memory.WriteWord(address, value, cycles)
WriteWordCall(address, value, counter) ==
    /\ Len(hist) < MaxWordOps
    /\ data' = WriteWord([Entry EXCEPT !.cycles = counter], address, value).data
    /\ hist' = Append(hist, WordRecord("write_word", address, value, counter,
                          WriteWord([Entry EXCEPT !.cycles = counter], address, value)))
    /\ UNCHANGED <<A, X, Y, PC, SP, P, TotalCycles, reset>>

\* memory.ReadWord(address, cycles)
ReadWordCall(address, counter) ==
    /\ Len(hist) < MaxWordOps
    /\ hist' = Append(hist, WordRecord("read_word", address,
                          ReadWord([Entry EXCEPT !.cycles = counter], address).v,
                          counter,
                          ReadWord([Entry EXCEPT !.cycles = counter], address).s))
    /\ UNCHANGED <<A, X, Y, PC, SP, P, TotalCycles, data, reset>>

NextWords ==
    \/ \E address \in WordAddresses, value \in WordValues, counter \in WordCounters :
           WriteWordCall(address, value, counter)
    \/ \E address \in WordAddresses, counter \in WordCounters :
           ReadWordCall(address, counter)

SpecWords == InitWords /\ [][NextWords]_vars

\* C29: for every address a, also 0xFFFF where the second byte is at 0x0000, and
\* every 16-bit value w, write_word(a, w) stores the low byte of w at a and the high
\* byte at (a + 1) mod 65536, a following read_word(a) returns w, and each of the
\* two operations adds exactly 2 to the counter it is given.
C29_WordRoundTrip ==
    /\ Returned("write_word") =>
           /\ Cell(data, Last.address) =
                  (IF (Last.address + 1) % 65536 = Last.address
                   THEN Last.value \div 256 ELSE Last.value % 256)
           /\ Cell(data, (Last.address + 1) % 65536) = Last.value \div 256
           /\ Last.log = << [op |-> "W", addr |-> Last.address],
                            [op |-> "W", addr |-> (Last.address + 1) % 65536] >>
           /\ Last.charged = 2
    /\ Returned("read_word") =>
           /\ Last.charged = 2
           /\ Last.value = WordAt(data, Last.address)
           /\ (Len(hist) >= 2 /\ Previous.op = "write_word"
                              /\ Previous.address = Last.address) =>
                  Last.value = Previous.value

\* 0x1234 written at 0xFFFF over other bytes and read back: 0x34 is at 0xFFFF and
\* 0x12 at 0x0000
C29_Witness ==
    /\ Returned("read_word")
    /\ Len(hist) >= 2
    /\ Previous.op = "write_word"
    /\ Previous.address = \hFFFF
    /\ Last.address = \hFFFF
    /\ Previous.value = \h1234
    /\ Previous.pre.data # EmptyMemory
    /\ Cell(data, \hFFFF) = \h34
    /\ Cell(data, \h0000) = \h12
    /\ Last.value = \h1234
    /\ Last.charged = 2

\* STA, STX and STY in every addressing mode
StoreOpcodes ==
    {INS.STA_ZP, INS.STA_ZPX, INS.STA_ABS, INS.STA_ABSX, INS.STA_ABSY, INS.STA_INDX,
     INS.STA_INDY, INS.STX_ZP, INS.STX_ZPY, INS.STX_ABS, INS.STY_ZP, INS.STY_ZPX,
     INS.STY_ABS}

\* the register step h stored
StoredRegister(h) ==
    IF h.opcode \in {INS.STX_ZP, INS.STX_ZPY, INS.STX_ABS} THEN h.pre.X
    ELSE IF h.opcode \in {INS.STY_ZP, INS.STY_ZPX, INS.STY_ABS} THEN h.pre.Y
    ELSE h.pre.A

\* the addresses step h wrote to
Written(h) == { h.log[i].addr : i \in { k \in 1..Len(h.log) : h.log[k].op = "W" } }

\* the last step executed an opcode of S
Executed(S) == Returned("step") /\ Last.opcode \in S

\* C30: STA, STX, STY (all addressing modes) and TXS leave every bit of P unchanged;
\* the stores also leave A, X, Y and SP unchanged and modify exactly one memory byte,
\* the one at the effective address, which receives the register.
C30_StoresKeepFlags ==
    /\ Executed(StoreOpcodes \cup {INS.TXS}) => P = Last.pre.P
    /\ Executed(StoreOpcodes) =>
           /\ A = Last.pre.A /\ X = Last.pre.X /\ Y = Last.pre.Y /\ SP = Last.pre.SP
           /\ Cardinality(Written(Last)) = 1
           /\ Last.log[Len(Last.log)].op = "W"
           /\ \A address \in Written(Last) :
                  /\ Cell(data, address) = StoredRegister(Last)
                  /\ \A other \in (DOMAIN data \cup DOMAIN Last.pre.data) \ {address} :
                         Cell(data, other) = Cell(Last.pre.data, other)

\* STA $80 with A = 0x81 and every flag set: the cell 0x80 receives 0x81 and P stays
\* 0xFF, where a load of 0x81 would clear Z
C30_Witness ==
    /\ Executed(StoreOpcodes)
    /\ Last.opcode = INS.STA_ZP
    /\ Last.pre.A = \h81
    /\ Last.pre.P = \hFF
    /\ Cell(Last.pre.data, \h80) = \h00
    /\ Cell(data, \h80) = \h81
    /\ P = \hFF

\* C31: ROL A and ROR A rotate the 9-bit quantity (C, A): ROL sets the new C to the
\* old bit 7 and the new bit 0 to the old C, ROR sets the new C to the old bit 0 and
\* the new bit 7 to the old C; so for every A and C, ROL A followed by ROR A restores
\* both A and C.
C31_RotateThroughCarry ==
    /\ Executed({INS.ROL_ACC}) =>
           /\ (BitAnd(P, FLAG_CARRY) # 0) <=> (Last.pre.A >= 128)
           /\ A = (2 * Last.pre.A + (Last.pre.P % 2)) % 256
           /\ A % 2 = Last.pre.P % 2
    /\ Executed({INS.ROR_ACC}) =>
           /\ (BitAnd(P, FLAG_CARRY) # 0) <=> (Last.pre.A % 2 = 1)
           /\ A = (Last.pre.A \div 2) + 128 * (Last.pre.P % 2)
           /\ A \div 128 = Last.pre.P % 2
    /\ StepPair(INS.ROL_ACC, INS.ROR_ACC) =>
           /\ A = Previous.pre.A
           /\ P % 2 = Previous.pre.P % 2

\* A = 0x81 with the carry clear: ROL A gives 0x02 with the carry set, ROR A gives
\* 0x81 back with the carry clear
C31_Witness ==
    /\ StepPair(INS.ROL_ACC, INS.ROR_ACC)
    /\ Previous.pre.A = \h81
    /\ Previous.pre.P % 2 = 0
    /\ Last.pre.A = \h02
    /\ Last.pre.P % 2 = 1
    /\ A = \h81
    /\ P % 2 = 0

AccessedAddresses ==
    UNION { { hist[i].log[k].addr : k \in 1..Len(hist[i].log) }
            \cup { hist[i].stack[k].addr : k \in 1..Len(hist[i].stack) } :
            i \in 1..Len(hist) }

\* C33: after any sequence of calls on any memory contents, A, X, Y, SP and P stay
\* within 0..255, and PC and every address used for a memory access stay within
\* 0..65535: address arithmetic wraps modulo 65536, also the opcode and operand
\* fetches at PC = 0xFFFF and absolute indexed addressing past 0xFFFF.
C33_RegistersAndAddressesInRange ==
    /\ {A, X, Y, SP, P} \subseteq 0..255
    /\ PC \in 0..65535
    /\ AccessedAddresses \subseteq 0..65535
    /\ DOMAIN data \subseteq 0..65535
    /\ \A address \in DOMAIN data : data[address] \in 1..255

\* LDA $FF80,X at 0xFFFF with X = 0x80: the operand is fetched at 0x0000 and 0x0001,
\* the access wraps to 0x0000 and PC ends at 0x0002
C33_Witness ==
    /\ Executed({INS.LDA_ABSX})
    /\ Last.pre.PC = \hFFFF
    /\ Last.pre.X = \h80
    /\ OperandWord(Last) = \hFF80
    /\ Last.log = << [op |-> "R", addr |-> \hFFFF], [op |-> "R", addr |-> \h0000],
                     [op |-> "R", addr |-> \h0001], [op |-> "R", addr |-> \h0000] >>
    /\ PC = \h0002

\* the sum a decimal ADC of a, m and carry c has formed once the low digit is
\* adjusted and before the high digit is
IntermediateSum(a, m, c) ==
    16 * ((a \div 16) + (m \div 16))
    + (IF (a % 16) + (m % 16) + c > 9
       THEN 16 + (((a % 16) + (m % 16) + c + 6) % 16)
       ELSE (a % 16) + (m % 16) + c)

\* the intermediate sum of the decimal ADC the last step executed
LastIntermediate == IntermediateSum(Last.pre.A, OperandRead(Last), Last.pre.P % 2)

\* C34: in decimal mode ADC derives Z, N and V from the intermediate sum taken before
\* the high-nibble (+0x60) adjustment, not from the final accumulator; so there are
\* inputs (A = 0x99, M = 0x01, C = 0) after which A = 0x00 while Z = 0.
C34_DecimalFlagsFromIntermediate ==
    Arithmetic(AddOpcodes, TRUE) =>
        /\ (BitAnd(P, FLAG_ZERO) # 0) <=> (LastIntermediate % 256 = 0)
        /\ (BitAnd(P, FLAG_NEGATIVE) # 0) <=> (LastIntermediate % 256 >= 128)
        /\ (BitAnd(P, FLAG_OVERFLOW) # 0) <=>
               (BitAnd(BitAnd(BitXor(Last.pre.A, LastIntermediate),
                              BitXor(OperandRead(Last), LastIntermediate)), \h80) # 0)

\* 0x99 + 0x01 with the carry clear: the intermediate sum is 0xA0, so N = 1 and
\* Z = 0, and the accumulator ends as 0x00
C34_Witness ==
    /\ Arithmetic(AddOpcodes, TRUE)
    /\ Last.pre.A = \h99
    /\ OperandRead(Last) = \h01
    /\ Last.pre.P % 2 = 0
    /\ LastIntermediate = \hA0
    /\ A = \h00
    /\ BitAnd(P, FLAG_ZERO) = 0
    /\ BitAnd(P, FLAG_NEGATIVE) # 0

\* C35: BRK at address a followed by RTI, the three stack bytes untouched in between,
\* resumes at PC = a + 2 (mod 65536), restores SP to its value before the BRK, and
\* leaves P equal to the P before the BRK with B and Unused set, so that I returns to
\* its value before the BRK.
C35_BrkThenRti ==
    StepPair(INS.BRK, INS.RTI) =>
        /\ PC = (Previous.pre.PC + 2) % 65536
        /\ SP = Previous.pre.SP
        /\ P = BitOr(Previous.pre.P, FLAG_BREAK + FLAG_UNUSED)
        /\ BitAnd(P, FLAG_INTERRUPT) = BitAnd(Previous.pre.P, FLAG_INTERRUPT)

\* BRK at 0xFFFF with SP = 0x01 and I and B clear: the handler runs with I set, and
\* RTI resumes at 0x0001 with SP = 0x01, I clear again and B set
C35_Witness ==
    /\ StepPair(INS.BRK, INS.RTI)
    /\ Previous.pre.PC = \hFFFF
    /\ Previous.pre.SP = \h01
    /\ Previous.pre.P = \hEB
    /\ Last.pre.SP = \hFE
    /\ Last.pre.P = \hEF
    /\ PC = \h0001
    /\ SP = \h01
    /\ P = \hFB

\* C36: for every opcode byte, legal or not, and every state of the CPU and the
\* memory, step returns a cost between 2 and 7 inclusive, and 7 is reached only by BRK.
C36_StepCostRange ==
    Returned("step") =>
        /\ Last.ret \in 2..7
        /\ Last.ret = 7 => Last.opcode = INS.BRK

\* both ends are reached: a BRK that cost 7 followed by an undefined opcode that
\* cost 2
C36_Witness ==
    /\ Len(hist) >= 2
    /\ Returned("step")
    /\ Previous.opcode = INS.BRK
    /\ Previous.ret = 7
    /\ Last.opcode \notin LegalOpcodes
    /\ Last.ret = 2

\* C37: run_for terminates for every finite budget and every memory contents, also
\* for programs that loop forever or consist of unknown opcodes, and executes at most
\* ceil(budget / 2) instructions, every step contributing at least 2 cycles.
C37_RunForInstructionBound ==
    Returned("run") =>
        /\ Last.n <= (Last.budget + 1) \div 2
        /\ Last.ret >= 2 * Last.n
        /\ TotalCycles - Last.pre.TotalCycles >= 2 * Last.n

\* a run over unknown opcodes only, each costing 2, that executed as many
\* instructions as the largest budget allows
C37_Witness ==
    /\ Returned("run")
    /\ Last.budget = MaxBudget
    /\ Last.opcode \notin LegalOpcodes
    /\ Last.n = (MaxBudget + 1) \div 2
    /\ Last.ret = 2 * Last.n

\* the eleven instructions that have an immediate form
ImmediateOpcodes ==
    {INS.LDA_IM, INS.LDX_IM, INS.LDY_IM, INS.AND_IM, INS.ORA_IM, INS.EOR_IM,
     INS.ADC_IM, INS.SBC_IM, INS.CMP_IM, INS.CPX_IM, INS.CPY_IM}

\* C38: every immediate-mode instruction (LDA/LDX/LDY/AND/ORA/EOR/ADC/SBC/CMP/CPX/CPY
\* #imm) makes step return 3 and advance PC by 2 (mod 65536): one tick for the opcode
\* fetch, one charged by the immediate addressing helper and one for the operand
\* read, the two reads being the only memory accesses.
C38_ImmediateCost ==
    Executed(ImmediateOpcodes) =>
        /\ Last.ret = 3
        /\ PC = (Last.pre.PC + 2) % 65536
        /\ Last.log = << [op |-> "R", addr |-> Last.pre.PC],
                         [op |-> "R", addr |-> (Last.pre.PC + 1) % 65536] >>

\* LDA #$80 at 0xFFFF: the operand is read at 0x0000, the step returns 3 and PC
\* wraps to 0x0001
C38_Witness ==
    /\ Executed(ImmediateOpcodes)
    /\ Last.opcode = INS.LDA_IM
    /\ Last.pre.PC = \hFFFF
    /\ OperandByte(Last) = \h80
    /\ A = \h80
    /\ Last.ret = 3
    /\ PC = \h0001
=============================================================================
